---- MODULE Spec2Model ----
(***************************************************************************)
(* GeoPerfMonitor: the performance measurement and aggregation engine.     *)
(*   - calculateMetrics: request-to-layer attribution and load time        *)
(*   - the map event effect: event boundary detector and history log       *)
(*   - waitForIdle: the idle / settlement waiter                           *)
(*   - runBenchmark: the scripted benchmark                                *)
(* Times are in milliseconds.  A URL is a sequence of characters.          *)
(***************************************************************************)
EXTENDS Integers, Sequences, FiniteSets, TLC

VARIABLES
    \* ---- App state (useState / useRef cells of App) ----
    layers,               \* useState<MapLayer[]>
    rawMetrics,           \* useState<NetworkRequestMetric[]>
    history,              \* useState<MapEventHistory[]>
    historyCapped,        \* the build is src/App.tsx, whose setHistory keeps the last 20
    isRecording,          \* useState(false)
    isRecordingRef,       \* useRef(false)
    viewUpdating,         \* viewRef.current.updating (the view's own signal)
    isMapUpdating,        \* useState(false), set by onMapUpdate
    prevUpdatingRef,      \* useRef(false)
    layerStatusesRef,     \* useRef<Record<string, boolean>>: the ids whose value is true
    isRunningBenchmark,   \* useState(false)
    subRunning,           \* isRunningBenchmark as captured by the subscribed callback
    benchmarkReport,      \* useState<BenchmarkReportData | null>
    benchmarkMetricsRef,  \* useRef<NetworkRequestMetric[]>
    nextMetricId,         \* number of metrics published so far (generateId)
    \* ---- runBenchmark activation ----
    pc,                   \* position of the async function runBenchmark
    stepIdx,              \* index into allSteps of the step in progress
    results,              \* const results: BenchmarkStepResult[]
    originalRecording,    \* const originalRecording
    benchLayers,          \* metricLayers as captured by the running closure
    timer,                \* delay of the setTimeout the run is suspended on
    timedOut,             \* some waitForIdle of the run returned false
    lastReport,           \* the report of the last run that reached setBenchmarkReport
    \* ---- waitForIdle activation ----
    wpc,                  \* position of the async function waitForIdle
    timeout,              \* its timeout argument
    elapsed,              \* Date.now() - start
    wres,                 \* its return value
    \* ---- the metric bus and the interceptor (services/monitor) ----
    listeners,            \* const listeners: Set<Listener>, in insertion order
    initialized,          \* let initialized
    configRequest,        \* whether the engine's config has a request section
    registered,           \* number of entries of config.request.interceptors
    now,                  \* Date.now()
    inFlight,             \* the request between its before and its after / error callback
    emitted,              \* the metric the interceptor built last, and by which callback
    \* ---- aggregation inputs and output (calculateMetrics checked alone) ----
    batch,                \* the metrics argument
    stats,                \* the returned summaries
    \* ---- observation records (history variables the properties refer to) ----
    eventStart,           \* nextMetricId when the last map event was seen to start
    obs,                  \* the clear observations made by the current waitForIdle call
    trace,                \* the run's resets, actions, waits, aggregations and delays, in order
    pubLog,               \* the metrics published around a run, with the position the run was at
    subscribedAt,         \* for each subscribed callback, the number of the subscribe call that added it
    subscribeCalls,       \* number of subscribe calls made so far
    initCalls,            \* number of initInterceptor calls made so far
    lastPass,             \* the last publish: who was subscribed when it began, who was invoked
    emitCount,            \* number of metrics the interceptor has emitted
    delivered,            \* for each callback, the numbers of the metrics it was invoked with
    \* ---- the rendering engine's map (MapComponent) ----
    mapLayers             \* map.layers: the layers created so far, with the URL each was given

vars == << layers, rawMetrics, history, historyCapped, isRecording, isRecordingRef, viewUpdating,
           isMapUpdating, prevUpdatingRef, layerStatusesRef, isRunningBenchmark,
           subRunning, benchmarkReport, benchmarkMetricsRef, nextMetricId,
           pc, stepIdx, results, originalRecording, benchLayers, timer, timedOut,
           lastReport, wpc, timeout, elapsed, wres, batch, stats, eventStart, obs, trace, pubLog,
           listeners, initialized, configRequest, registered, now, inFlight, emitted,
           subscribedAt, subscribeCalls, initCalls, lastPass, emitCount, delivered,
           mapLayers >>

appVars   == << layers, rawMetrics, history, isRecording, isRecordingRef, viewUpdating,
                isMapUpdating, prevUpdatingRef, layerStatusesRef, isRunningBenchmark,
                subRunning, benchmarkReport, benchmarkMetricsRef, nextMetricId, pubLog >>
benchVars == << pc, stepIdx, results, originalRecording, benchLayers, timer, timedOut,
               lastReport, trace >>
waitVars  == << wpc, timeout, elapsed, wres, obs >>
aggVars   == << batch, stats >>
busVars   == << listeners, subscribedAt, subscribeCalls, lastPass, emitCount, delivered >>
icVars    == << initialized, configRequest, registered, now, inFlight, emitted, initCalls >>
monVars   == << busVars, icVars >>
restVars  == << appVars, benchVars, waitVars, aggVars, eventStart, historyCapped, mapLayers >>

(***************************************************************************)
(* Bounds                                                                  *)
(***************************************************************************)
MaxBatch == 3          \* longest batch handed to calculateMetrics alone
MaxPublished == 2      \* metrics the interceptor publishes in one behaviour of Spec
MaxHistory == 2        \* snapshots after which Spec stops observing the view

(***************************************************************************)
(* Small helpers                                                           *)
(***************************************************************************)
SeqRange(s) == { s[i] : i \in 1..Len(s) }

SetMin(S) == CHOOSE x \in S : \A y \in S : x <= y

SetMax(S) == CHOOSE x \in S : \A y \in S : x >= y

RECURSIVE SeqSum(_)
SeqSum(s) == IF s = << >> THEN 0 ELSE s[1] + SeqSum(Tail(s))

(***************************************************************************)
(* Strings: String.prototype.toLowerCase and String.prototype.includes     *)
(***************************************************************************)
LowerChar(c) ==
    CASE c = "A" -> "a"
      [] c = "M" -> "m"
      [] c = "S" -> "s"
      [] OTHER   -> c

toLowerCase(s) == [i \in 1..Len(s) |-> LowerChar(s[i])]

includes(s, t) ==
    \E i \in 0..(Len(s) - Len(t)) : SubSeq(s, i + 1, i + Len(t)) = t

(***************************************************************************)
(* Layers and metrics the specifications draw from.                        *)
(*   "S/A"      a service URL              (layer la)                      *)
(*   "S/A/M"    a longer URL containing it (layer lm)                      *)
(*   "S/b"      an unrelated service       (layer lb)                      *)
(***************************************************************************)
UrlA  == << "S", "/", "A" >>
UrlAM == << "S", "/", "A", "/", "M" >>
UrlB  == << "S", "/", "b" >>

\* a path typed without its origin, "A/M": handleAddLayer takes any non-empty string
UrlNoOrigin == << "A", "/", "M" >>

\* the characters that stand for a scheme and host ("https://host")
Origins == { "S", "T", "s", "t" }

\* whether new URL(url) returns; it throws a TypeError on a string with no scheme
urlParses(url) == Len(url) > 0 /\ url[1] \in Origins

\* new URL(url).hostname, which the parser lower-cases
hostname(url) == << LowerChar(url[1]) >>

Layer(id, url, ex) == [id |-> id, url |-> url, excludeFromMetrics |-> ex]

LayerLists ==
    { << >>,
      << Layer("la", UrlA, FALSE) >>,
      << Layer("la", UrlA, FALSE), Layer("lm", UrlAM, FALSE) >>,
      << Layer("lm", UrlAM, FALSE), Layer("la", UrlA, FALSE) >>,
      << Layer("la", UrlA, TRUE), Layer("lm", UrlAM, FALSE) >>,
      << Layer("lb", UrlB, FALSE), Layer("la", UrlA, FALSE) >>,
      << Layer("lb", UrlB, TRUE) >>,
      << Layer("la", UrlA, FALSE), Layer("lx", UrlNoOrigin, FALSE) >>,
      << Layer("lx", UrlNoOrigin, TRUE), Layer("la", UrlA, FALSE) >> }

\* request URLs: under S/A (other case), under S/A/M (lower case), under no layer
ReqUrls ==
    { << "s", "/", "a", "/", "7" >>,
      << "s", "/", "a", "/", "m", "/", "7" >>,
      << "x" >> }

\* (startTime, endTime, status): the error handler reports status 500 (or the
\* server's) and a duration of 100 ms, the after handler status 200
Shapes ==
    { << 100, 300, 200 >>, << 150, 250, 500 >>, << 280, 400, 200 >>, << 300, 300, 200 >> }

Metric(id, url, st, en, status) ==
    [id |-> id, url |-> url, startTime |-> st, endTime |-> en,
     duration |-> en - st, status |-> status]

(***************************************************************************)
(* metricLayers and calculateMetrics                                       *)
(***************************************************************************)
\* a filter that lets every layer through
metricLayersAll(ls) == ls

\* layersWithColors.filter(l => !l.excludeFromMetrics)
metricLayers(ls) == SelectSeq(ls, LAMBDA l : ~ l.excludeFromMetrics)

\* a find() that keeps the last matching layer instead of the first
matchedLayerLast(ml, m) ==
    LET hits == { i \in 1..Len(ml) :
                    includes(toLowerCase(m.url), toLowerCase(ml[i].url)) }
    IN  IF hits = {} THEN 0 ELSE SetMax(hits)

\* metricLayers.find(l => m.url.toLowerCase().includes(l.url.toLowerCase())):
\* the index of the first matching layer, 0 when find returns undefined
matchedLayer(ml, m) ==
    LET hits == { i \in 1..Len(ml) :
                    includes(toLowerCase(m.url), toLowerCase(ml[i].url)) }
    IN  IF hits = {} THEN 0 ELSE SetMin(hits)

\* a load time that adds the requests' durations up
loadTimeSummed(reqs) == SeqSum([k \in 1..Len(reqs) |-> reqs[k].duration])

\* a load time measured from time 0 to the last endTime
loadTimeFromZero(reqs) ==
    IF Len(reqs) > 0 THEN SetMax({ reqs[k].endTime : k \in 1..Len(reqs) }) ELSE 0

\* the wall clock span of one summary's requests
loadTimeOf(reqs) ==
    IF Len(reqs) > 0
    THEN SetMax({ reqs[k].endTime : k \in 1..Len(reqs) })
         - SetMin({ reqs[k].startTime : k \in 1..Len(reqs) })
    ELSE 0

\* calculateMetrics with a stats object that outlives the call: the requests
\* matched by the previous call are still in it
calculateMetricsKeepsStats(ml, metrics) ==
    [ i \in 1..Len(ml) |->
        LET kept == IF stats.fresh THEN stats.sums[i].requests ELSE << >>
            reqs == kept \o SelectSeq(metrics, LAMBDA m : matchedLayer(ml, m) = i)
        IN  [ id            |-> ml[i].id,
              domain        |-> hostname(ml[i].url),
              requestCount  |-> Len(reqs),
              totalDuration |-> SeqSum([k \in 1..Len(reqs) |-> reqs[k].duration]),
              loadTime      |-> loadTimeOf(reqs),
              errorCount    |-> 0,
              requests      |-> reqs ] ]

calculateMetrics(ml, metrics) ==
    [ i \in 1..Len(ml) |->
        LET reqs == SelectSeq(metrics, LAMBDA m : matchedLayer(ml, m) = i)
        IN  [ id            |-> ml[i].id,
              domain        |-> hostname(ml[i].url),
              requestCount  |-> Len(reqs),
              totalDuration |-> SeqSum([k \in 1..Len(reqs) |-> reqs[k].duration]),
              loadTime      |-> loadTimeOf(reqs),
              errorCount    |-> 0,
              requests      |-> reqs ] ]

(***************************************************************************)
(* Values the cells that an operation does not use are parked at.          *)
(***************************************************************************)
NoStats  == [fresh |-> FALSE]
Threw    == [fresh |-> FALSE, threw |-> TRUE]
NoReport == [present |-> FALSE]
NoObs == [poll     |-> [at |-> -1, clear |-> FALSE],
          settle   |-> [at |-> -1, clear |-> FALSE],
          everIdle |-> FALSE,
          quiet    |-> FALSE]

AppIdle ==
    /\ rawMetrics = << >>
    /\ history = << >>
    /\ isRecording = FALSE
    /\ isRecordingRef = FALSE
    /\ viewUpdating = FALSE
    /\ isMapUpdating = FALSE
    /\ prevUpdatingRef = FALSE
    /\ layerStatusesRef = {}
    /\ isRunningBenchmark = FALSE
    /\ subRunning = FALSE
    /\ benchmarkReport = NoReport
    /\ benchmarkMetricsRef = << >>
    /\ nextMetricId = 1
    /\ pubLog = << >>

BenchIdle ==
    /\ pc = "idle"
    /\ stepIdx = 0
    /\ results = << >>
    /\ originalRecording = FALSE
    /\ benchLayers = << >>
    /\ timer = 0
    /\ timedOut = FALSE
    /\ lastReport = NoReport
    /\ trace = << >>

NoRequest == [sent |-> FALSE]
NoMetric  == [by |-> "none"]
NoPass    == [made |-> FALSE]
ClockStart == 1000

\* the callbacks that may be handed to subscribeToMetrics
Callbacks == { "c1", "c2", "c3" }

\* services/monitor as loaded, with nothing subscribed and no interceptor
MonLoaded ==
    /\ listeners = << >>
    /\ subscribedAt = [c \in Callbacks |-> 0]
    /\ subscribeCalls = 0
    /\ lastPass = NoPass
    /\ emitCount = 0
    /\ delivered = [c \in Callbacks |-> << >>]
    /\ initialized = FALSE
    /\ registered = 0
    /\ now = ClockStart
    /\ inFlight = NoRequest
    /\ emitted = NoMetric
    /\ initCalls = 0

MonIdle == MonLoaded /\ configRequest = TRUE

WaitIdle ==
    /\ wpc = "idle"
    /\ timeout = 0
    /\ elapsed = 0
    /\ wres = FALSE
    /\ obs = NoObs

(***************************************************************************)
(* SpecAgg: calculateMetrics alone, on every batch of at most MaxBatch     *)
(* metrics and every layer list of LayerLists.                             *)
(***************************************************************************)
AggInit ==
    /\ layers \in LayerLists
    /\ batch = << >>
    /\ stats = NoStats
    /\ AppIdle /\ BenchIdle /\ WaitIdle
    /\ eventStart = 1
    /\ historyCapped = FALSE
    /\ MonIdle
    /\ mapLayers = << >>

\* one more metric arrives in the batch
AggPush ==
    /\ Len(batch) < MaxBatch
    /\ \E u \in ReqUrls, t \in Shapes :
          batch' = Append(batch, Metric(Len(batch) + 1, u, t[1], t[2], t[3]))
    /\ stats' = NoStats
    /\ UNCHANGED << appVars, benchVars, waitVars, eventStart, historyCapped, monVars, mapLayers >>

\* const stats = calculateMetrics(batch)
\* the call is made once, and once more on the same batch and layers
AggCall ==
    /\ ~ (stats.fresh /\ stats.again)
    /\ stats' = IF \A i \in 1..Len(metricLayers(layers)) : urlParses(metricLayers(layers)[i].url)
                THEN [fresh |-> TRUE, sums |-> calculateMetrics(metricLayers(layers), batch),
                      again |-> stats.fresh]
                ELSE Threw
    /\ UNCHANGED << batch, appVars, benchVars, waitVars, eventStart, historyCapped, monVars, mapLayers >>

AggNext == AggPush \/ AggCall

SpecAgg == AggInit /\ [][AggNext]_vars

(***************************************************************************)
(* What the properties of attribution are stated against: which tracked    *)
(* layer a request belongs to, said without find().                        *)
(***************************************************************************)
Tracked == metricLayers(layers)

UrlMatches(m, l) == includes(toLowerCase(m.url), toLowerCase(l.url))

\* batch[k] belongs to tracked layer i: i matches and no earlier layer does
BelongsTo(k, i) ==
    /\ UrlMatches(batch[k], Tracked[i])
    /\ \A j \in 1..(i - 1) : ~ UrlMatches(batch[k], Tracked[j])

Belonging(i) == { k \in 1..Len(batch) : BelongsTo(k, i) }

ScenarioA == << << 100, 300 >>, << 150, 250 >>, << 280, 400 >> >>

TimesOf(reqs) == [k \in 1..Len(reqs) |-> << reqs[k].startTime, reqs[k].endTime >>]

\* C1: for every tracked layer with at least one matched request, loadTime is
\* the maximum endTime minus the minimum startTime over the layer's matched
\* requests; the requests (100,300), (150,250), (280,400) give count 3, loadTime 300.
C1_LoadTimeIsSpan ==
    stats.fresh =>
        \A i \in 1..Len(stats.sums) :
            /\ stats.sums[i].requestCount = Cardinality(Belonging(i))
            /\ Belonging(i) # {} =>
                 stats.sums[i].loadTime =
                     SetMax({ batch[k].endTime : k \in Belonging(i) })
                     - SetMin({ batch[k].startTime : k \in Belonging(i) })
            /\ TimesOf(stats.sums[i].requests) = ScenarioA =>
                 stats.sums[i].requestCount = 3 /\ stats.sums[i].loadTime = 300

\* scenario A has been aggregated: three overlapping requests of one layer,
\* whose span (300) is not the sum of their durations (420)
C1_Witness ==
    /\ stats.fresh
    /\ \E i \in 1..Len(stats.sums) :
          /\ TimesOf(stats.sums[i].requests) = ScenarioA
          /\ stats.sums[i].loadTime = 300
          /\ stats.sums[i].totalDuration = 420

\* the summaries that count batch[k]
CountedIn(k) ==
    { i \in 1..Len(stats.sums) :
        \E r \in 1..Len(stats.sums[i].requests) : stats.sums[i].requests[r].id = batch[k].id }

\* C2: every metric is counted in exactly one summary, that of the first
\* tracked layer in list order whose lower-cased URL is a substring of the
\* metric's lower-cased URL, or in none when no tracked layer matches.
C2_FirstMatchOnly ==
    stats.fresh =>
        /\ \A k \in 1..Len(batch) :
              /\ Cardinality(CountedIn(k)) <= 1
              /\ \A i \in 1..Len(Tracked) : (i \in CountedIn(k)) <=> BelongsTo(k, i)
              /\ (\A i \in 1..Len(Tracked) : ~ UrlMatches(batch[k], Tracked[i]))
                    => CountedIn(k) = {}
        /\ \A i \in 1..Len(stats.sums) :
              /\ stats.sums[i].id = Tracked[i].id
              /\ stats.sums[i].requestCount = Len(stats.sums[i].requests)
              /\ \A r \in 1..Len(stats.sums[i].requests) :
                    \E k \in 1..Len(batch) : batch[k] = stats.sums[i].requests[r]

\* a request under the longer URL, which two tracked layers match, has been
\* counted for the first of them only
C2_Witness ==
    /\ stats.fresh
    /\ \E k \in 1..Len(batch) :
          /\ Cardinality({ i \in 1..Len(Tracked) : UrlMatches(batch[k], Tracked[i]) }) = 2
          /\ CountedIn(k) = {1}
          /\ Tracked[1].url = UrlA

(***************************************************************************)
(* App: the recording controls, the metric subscription and the map event  *)
(* effect.  Every handler below is followed, inside the same action, by    *)
(* the render it causes and the effects whose dependencies changed.        *)
(***************************************************************************)
UrlBase == << "T", "/", "V" >>

DEFAULT_LAYERS == << Layer("vermont-basemap", UrlBase, TRUE) >>

\* the layers handleAddLayer can be given (never flagged excludeFromMetrics)
AddableLayers == { Layer("la", UrlA, FALSE), Layer("lm", UrlAM, FALSE) }

\* the requests published in Spec: one under S/A/M (and so under S/A), one under no layer
AppUrls == { << "s", "/", "a", "/", "m", "/", "7" >>, << "x" >> }

\* what a published request looks like in Spec
AppShapes == { << 100, 300, 200 >>, << 300, 300, 200 >> }

\* new Date().toLocaleTimeString(...)
Timestamps == { "10:00:01" }

RawKeep == 3000

\* prev.slice(-n)
sliceLast(s, n) == IF Len(s) <= n THEN s ELSE SubSeq(s, Len(s) - n + 1, Len(s))

aggregatedMetrics(ls, raw) == calculateMetrics(metricLayers(ls), raw)

HistoryKeep == 19

\* a setHistory that puts the new snapshot first
appendHistoryPrepends(hist, snapshot) ==
    IF historyCapped THEN << snapshot >> \o sliceLast(hist, HistoryKeep)
    ELSE << snapshot >> \o hist

\* setHistory(prev => [...prev, snapshot]), and in src/App.tsx
\* setHistory(prev => [...prev.slice(-19), snapshot])
appendHistory(hist, snapshot) ==
    IF historyCapped THEN Append(sliceLast(hist, HistoryKeep), snapshot)
    ELSE Append(hist, snapshot)

\* the snapshot built at the end of a map event; layerDurations holds
\* loadTime / 1000 seconds as a number of thousandths of a second
Snapshot(hist, agg, ts) ==
    [ id             |-> Len(hist) + 1,
      timestamp      |-> ts,
      layerDurations |-> { << agg[i].id, agg[i].loadTime >> : i \in 1..Len(agg) } ]

\* a map event effect that forgets to store the signal it has just handled
MapEventEffectKeepsPrev(rec, run, upd, prev, raw, hist, ls, ts) ==
    IF ~ rec
    THEN [raw |-> raw, hist |-> hist, prev |-> prev]
    ELSE LET agg      == aggregatedMetrics(ls, raw)
             startEvt == upd /\ ~ prev
             endEvt   == ~ upd /\ prev
             some     == \E i \in 1..Len(agg) : agg[i].requestCount > 0
         IN  [ raw  |-> IF startEvt /\ ~ run THEN << >> ELSE raw,
               hist |-> IF endEvt /\ ~ run /\ some
                        THEN appendHistory(hist, Snapshot(hist, agg, ts))
                        ELSE hist,
               prev |-> IF endEvt THEN prev ELSE upd ]

\* a map event effect that leaves the batch alone when an event starts
MapEventEffectNoClear(rec, run, upd, prev, raw, hist, ls, ts) ==
    IF ~ rec
    THEN [raw |-> raw, hist |-> hist, prev |-> prev]
    ELSE LET agg      == aggregatedMetrics(ls, raw)
             endEvt   == ~ upd /\ prev
             some     == \E i \in 1..Len(agg) : agg[i].requestCount > 0
         IN  [ raw  |-> raw,
               hist |-> IF endEvt /\ ~ run /\ some
                        THEN appendHistory(hist, Snapshot(hist, agg, ts))
                        ELSE hist,
               prev |-> upd ]

\* one run of the map event effect
MapEventEffect(rec, run, upd, prev, raw, hist, ls, ts) ==
    IF ~ rec
    THEN [raw |-> raw, hist |-> hist, prev |-> prev]
    ELSE LET agg      == aggregatedMetrics(ls, raw)
             startEvt == upd /\ ~ prev
             endEvt   == ~ upd /\ prev
             some     == \E i \in 1..Len(agg) : agg[i].requestCount > 0
         IN  [ raw  |-> IF startEvt /\ ~ run THEN << >> ELSE raw,
               hist |-> IF endEvt /\ ~ run /\ some
                        THEN appendHistory(hist, Snapshot(hist, agg, ts))
                        ELSE hist,
               prev |-> upd ]

\* the effect after a render, run again when its own setRawMetrics or
\* setHistory changed one of its dependencies
RenderEffects(rec, run, upd, prev, raw, hist, ls, ts) ==
    LET s1 == MapEventEffect(rec, run, upd, prev, raw, hist, ls, ts)
    IN  IF s1.raw # raw \/ Len(s1.hist) # Len(hist)
        THEN MapEventEffect(rec, run, upd, s1.prev, s1.raw, s1.hist, ls, ts)
        ELSE s1

\* the cells the effect writes, after the render of the primed state
Rendered(rec, run, upd, raw, hist, ls) ==
    \E ts \in Timestamps :
        LET s == RenderEffects(rec, run, upd, prevUpdatingRef, raw, hist, ls, ts)
        IN  /\ rawMetrics' = s.raw
            /\ history' = s.hist
            /\ prevUpdatingRef' = s.prev

\* the Play button, rendered while not recording, disabled during a benchmark
handlePlay ==
    /\ ~ isRecording
    /\ ~ isRunningBenchmark
    /\ isRecording' = TRUE
    /\ isRecordingRef' = TRUE
    /\ Rendered(TRUE, isRunningBenchmark, isMapUpdating, rawMetrics, history, layers)
    /\ UNCHANGED << layers, viewUpdating, isMapUpdating, layerStatusesRef,
                    isRunningBenchmark, subRunning, benchmarkReport,
                    benchmarkMetricsRef, nextMetricId, pubLog, eventStart, historyCapped, monVars, mapLayers >>

\* the Pause button, rendered while recording, disabled during a benchmark
handlePause ==
    /\ isRecording
    /\ ~ isRunningBenchmark
    /\ isRecording' = FALSE
    /\ isRecordingRef' = FALSE
    /\ Rendered(FALSE, isRunningBenchmark, isMapUpdating, rawMetrics, history, layers)
    /\ UNCHANGED << layers, viewUpdating, isMapUpdating, layerStatusesRef,
                    isRunningBenchmark, subRunning, benchmarkReport,
                    benchmarkMetricsRef, nextMetricId, pubLog, eventStart, historyCapped, monVars, mapLayers >>

handleReset ==
    /\ ~ isRunningBenchmark
    /\ Rendered(isRecording, isRunningBenchmark, isMapUpdating, << >>, << >>, layers)
    /\ UNCHANGED << layers, isRecording, isRecordingRef, viewUpdating, isMapUpdating,
                    layerStatusesRef, isRunningBenchmark, subRunning, benchmarkReport,
                    benchmarkMetricsRef, nextMetricId, pubLog, eventStart, historyCapped, monVars, mapLayers >>

\* the view's updating property changes and the watcher calls onMapUpdate
onMapUpdate(histCap) ==
    /\ Len(history) < histCap
    /\ viewUpdating' = ~ viewUpdating
    /\ isMapUpdating' = viewUpdating'
    /\ Rendered(isRecording, isRunningBenchmark, isMapUpdating', rawMetrics, history, layers)
    /\ eventStart' = IF viewUpdating' /\ isRecording /\ ~ isRunningBenchmark
                     THEN nextMetricId ELSE eventStart
    /\ UNCHANGED << layers, isRecording, isRecordingRef, layerStatusesRef,
                    isRunningBenchmark, subRunning, benchmarkReport,
                    benchmarkMetricsRef, nextMetricId, pubLog, historyCapped, monVars, mapLayers >>

\* a callback that does not look at isRecordingRef
onMetricAlwaysRecords(metric) ==
    /\ benchmarkMetricsRef' = IF subRunning THEN Append(benchmarkMetricsRef, metric)
                              ELSE benchmarkMetricsRef
    /\ Rendered(isRecording, isRunningBenchmark, isMapUpdating,
                Append(sliceLast(rawMetrics, RawKeep), metric), history, layers)

\* the callback App subscribed, called by notifyListeners(metric)
onMetric(metric) ==
    /\ benchmarkMetricsRef' = IF subRunning THEN Append(benchmarkMetricsRef, metric)
                              ELSE benchmarkMetricsRef
    /\ IF isRecordingRef
       THEN Rendered(isRecording, isRunningBenchmark, isMapUpdating,
                     Append(sliceLast(rawMetrics, RawKeep), metric), history, layers)
       ELSE UNCHANGED << rawMetrics, history, prevUpdatingRef >>

\* a request completes: the interceptor builds the metric and publishes it
Publish(cap, urls, shapes, logged) ==
    /\ nextMetricId <= cap
    /\ \E u \in urls, t \in shapes :
          /\ onMetric(Metric(nextMetricId, u, t[1], t[2], t[3]))
          /\ pubLog' = IF logged
                       THEN Append(pubLog, [m |-> Metric(nextMetricId, u, t[1], t[2], t[3]),
                                            step |-> stepIdx, at |-> pc])
                       ELSE pubLog
    /\ nextMetricId' = nextMetricId + 1
    /\ UNCHANGED << layers, isRecording, isRecordingRef, viewUpdating, isMapUpdating,
                    layerStatusesRef, isRunningBenchmark, subRunning, benchmarkReport,
                    eventStart, historyCapped, monVars, mapLayers >>

handleAddLayer ==
    /\ \E l \in AddableLayers :
          /\ \A i \in 1..Len(layers) : layers[i].id # l.id
          /\ layers' = Append(layers, l)
    /\ Rendered(isRecording, isRunningBenchmark, isMapUpdating, rawMetrics, history, layers')
    /\ UNCHANGED << isRecording, isRecordingRef, viewUpdating, isMapUpdating,
                    layerStatusesRef, isRunningBenchmark, subRunning, benchmarkReport,
                    benchmarkMetricsRef, nextMetricId, pubLog, eventStart, historyCapped, monVars, mapLayers >>

handleRemoveLayer ==
    /\ \E i \in 1..Len(layers) :
          layers' = SelectSeq(layers, LAMBDA l : l.id # layers[i].id)
    /\ Rendered(isRecording, isRunningBenchmark, isMapUpdating, rawMetrics, history, layers')
    /\ UNCHANGED << isRecording, isRecordingRef, viewUpdating, isMapUpdating,
                    layerStatusesRef, isRunningBenchmark, subRunning, benchmarkReport,
                    benchmarkMetricsRef, nextMetricId, pubLog, eventStart, historyCapped, monVars, mapLayers >>

Init ==
    /\ layers = DEFAULT_LAYERS
    /\ AppIdle /\ BenchIdle /\ WaitIdle
    /\ batch = << >>
    /\ stats = NoStats
    /\ eventStart = 1
    /\ historyCapped = FALSE
    /\ MonIdle
    /\ mapLayers = << >>

Next ==
    \/ (handlePlay /\ UNCHANGED << benchVars, waitVars, aggVars >>)
    \/ (handlePause /\ UNCHANGED << benchVars, waitVars, aggVars >>)
    \/ (handleReset /\ UNCHANGED << benchVars, waitVars, aggVars >>)
    \/ (onMapUpdate(MaxHistory) /\ UNCHANGED << benchVars, waitVars, aggVars >>)
    \/ (Publish(MaxPublished, AppUrls, AppShapes, FALSE) /\ UNCHANGED << benchVars, waitVars, aggVars >>)
    \/ (handleAddLayer /\ UNCHANGED << benchVars, waitVars, aggVars >>)
    \/ (handleRemoveLayer /\ UNCHANGED << benchVars, waitVars, aggVars >>)

Spec == Init /\ [][Next]_vars

(***************************************************************************)
(* waitForIdle.  The timers fire at their nominal delay, so elapsed (the   *)
(* value of Date.now() - start) advances by the delay slept.               *)
(***************************************************************************)
PollInterval == 200
SettleDelay == 800
DefaultTimeout == 15000

\* Object.values(layerStatusesRef.current).some(status => status === true)
layersBusy == layerStatusesRef # {}

\* a loop that still runs when exactly timeout ms have elapsed
loopConditionInclusive(e, T) == e <= T

\* a loop that grants one more poll interval after the timeout
loopConditionLate(e, T) == e < T + PollInterval

\* a loop that never looks at the clock
loopConditionForever(e, T) == TRUE

\* while (Date.now() - start < timeout)
loopCondition(e, T) == e < T

\* what the code does after the poll timer: "poll" (continue), "settle" or "false"
pollOutcome(upd, busy, e, T) ==
    IF upd \/ busy
    THEN (IF loopCondition(e, T) THEN "poll" ELSE "false")
    ELSE "settle"

\* a settlement re-check that looks at the view only
settleOutcomeViewOnly(upd, busy, e, T) ==
    IF ~ upd
    THEN "true"
    ELSE (IF loopCondition(e, T) THEN "poll" ELSE "false")

\* a settlement re-check that goes round the loop whatever it sees
settleOutcomeRepolls(upd, busy, e, T) ==
    IF loopCondition(e, T) THEN "poll" ELSE "false"

\* what the code does after the settlement timer: "true", "poll" or "false"
settleOutcome(upd, busy, e, T) ==
    IF ~ upd /\ ~ busy
    THEN "true"
    ELSE (IF loopCondition(e, T) THEN "poll" ELSE "false")

\* what an observation records: when it was made and what the signals were
Observed(e) == [at |-> e, clear |-> (~ viewUpdating /\ layerStatusesRef = {})]

\* a layer view's updating property changes
handleLayerStatusChange(ids) ==
    /\ \E id \in ids :
          layerStatusesRef' = IF id \in layerStatusesRef
                              THEN layerStatusesRef \ { id }
                              ELSE layerStatusesRef \cup { id }
    /\ UNCHANGED << layers, rawMetrics, history, isRecording, isRecordingRef,
                    viewUpdating, isMapUpdating, prevUpdatingRef, isRunningBenchmark,
                    subRunning, benchmarkReport, benchmarkMetricsRef, nextMetricId,
                    pubLog, eventStart, historyCapped, monVars, mapLayers >>

(***************************************************************************)
(* runBenchmark.  pc is where the async function is suspended:             *)
(*   "idle"       no run in progress                                       *)
(*   "setup"      await viewRef.current.goTo(...) of the setup navigation  *)
(*   "setupWait"  await waitForIdle() of the setup                         *)
(*   "action"     await step.action()                                      *)
(*   "wait"       await waitForIdle() of a nav step                        *)
(*   "grace"      the 2000 ms timer of a query step                        *)
(*   "delay"      the 800 ms timer after a step                            *)
(* What follows an await runs in the action that resumes the function.     *)
(***************************************************************************)
GraceDelay == 2000
InterStepDelay == 800
NavCount == 10
QueryCount == 5
ZoomBase == 10
ZoomCycle == 7

TOWNS == << "Montpelier", "Burlington", "Rutland", "St. Albans", "Brattleboro",
            "Middlebury", "Newport", "Bennington", "St. Johnsbury", "Stowe" >>

\* name: `Nav ${i+1}: ${town.name} (Z${zoom})`, for i = 0 .. 9
navSteps ==
    [ n \in 1..NavCount |->
        LET i == n - 1
        IN  [ name |-> << "Nav", i + 1, TOWNS[(i % Len(TOWNS)) + 1],
                          ZoomBase + (i % ZoomCycle) >>,
              type |-> "nav" ] ]

\* name: `Query ${i}: Features`, for i = 1 .. 5
querySteps ==
    [ i \in 1..QueryCount |-> [ name |-> << "Query", i, "Features" >>, type |-> "query" ] ]

\* a step list that runs the queries before the navigations
allStepsQueryFirst == querySteps \o navSteps

\* const allSteps = [...navSteps, ...querySteps]
allSteps == navSteps \o querySteps

\* the BenchmarkStepResult of step k, from the accumulator; loadTime holds
\* sm.loadTime / 1000 seconds as a number of thousandths of a second
stepResult(k, ml, acc) ==
    LET stepMetrics == calculateMetrics(ml, acc)
    IN  [ stepName     |-> allSteps[k].name,
          type         |-> allSteps[k].type,
          layerMetrics |-> [ i \in 1..Len(ml) |->
                               [ id           |-> ml[i].id,
                                 loadTime     |-> stepMetrics[i].loadTime,
                                 requestCount |-> stepMetrics[i].requestCount ] ] ]

\* reduce((acc, curr) => acc + curr.loadTime, 0)
RECURSIVE sumLoadTime(_)
sumLoadTime(ms) ==
    IF ms = << >> THEN 0 ELSE ms[1].loadTime + sumLoadTime(Tail(ms))

\* reduce((acc, curr) => acc + curr.requestCount, 0)
RECURSIVE sumRequestCount(_)
sumRequestCount(ms) ==
    IF ms = << >> THEN 0 ELSE ms[1].requestCount + sumRequestCount(Tail(ms))

\* the layer's metrics of every step, whatever its type
layerStepsAll(res, type, i) == [ k \in 1..Len(res) |-> res[k].layerMetrics[i] ]

\* results.filter(r => r.type === type).map(r => r.layerMetrics[l.id])
layerSteps(res, type, i) ==
    LET sel == SelectSeq(res, LAMBDA r : r.type = type)
    IN  [ k \in 1..Len(sel) |-> sel[k].layerMetrics[i] ]

\* n > 0 ? total / n : 0, the quotient kept as the pair it is made of
average(total, n) ==
    IF n > 0 THEN [ sum |-> total, over |-> n ] ELSE [ sum |-> 0, over |-> 1 ]

\* summary[l.id] for the i-th metrics-eligible layer
summaryOf(res, i) ==
    LET layerNavSteps   == layerSteps(res, "nav", i)
        layerQuerySteps == layerSteps(res, "query", i)
        totalNavLoad    == sumLoadTime(layerNavSteps)
        totalQueryLoad  == sumLoadTime(layerQuerySteps)
        totalReq        == sumRequestCount(layerNavSteps \o layerQuerySteps)
        avgNavLoad      == average(totalNavLoad, Len(layerNavSteps))
        avgQueryLoad    == average(totalQueryLoad, Len(layerQuerySteps))
    IN  [ id               |-> benchLayers[i].id,
          avgNavLoadTime   |-> avgNavLoad,
          avgQueryLoadTime |-> avgQueryLoad,
          totalRequests    |-> totalReq,
          score            |-> avgNavLoad ]

\* a < b for two quotients kept as pairs with positive divisors
scoreLess(a, b) == a.sum * b.over < b.sum * a.over

\* the comparison of the fastest with '<=' for '<'
RECURSIVE pickFastestLast(_, _, _)
pickFastestLast(summary, i, best) ==
    IF i > Len(summary) THEN best
    ELSE pickFastestLast(summary, i + 1,
                         IF ~ scoreLess(summary[best].score, summary[i].score)
                         THEN i ELSE best)

\* if (summary[l.id].score < summary[fastestId].score) fastestId = l.id
RECURSIVE pickFastest(_, _, _)
pickFastest(summary, i, best) ==
    IF i > Len(summary) THEN best
    ELSE pickFastest(summary, i + 1,
                     IF scoreLess(summary[i].score, summary[best].score)
                     THEN i ELSE best)

\* if (summary[l.id].score > summary[slowestId].score) slowestId = l.id
RECURSIVE pickSlowest(_, _, _)
pickSlowest(summary, i, best) ==
    IF i > Len(summary) THEN best
    ELSE pickSlowest(summary, i + 1,
                     IF scoreLess(summary[best].score, summary[i].score)
                     THEN i ELSE best)

\* metricLayers[0]?.id of an empty list
NoId == ""
Zero == [ sum |-> 0, over |-> 1 ]

\* ((fastTime / slowTime) - 1) * 100, the two times exchanged
percentFasterInverted(fastTime, slowTime) ==
    IF fastTime.sum > 0
    THEN [ num |-> (fastTime.sum * slowTime.over - slowTime.sum * fastTime.over) * 100,
           den |-> slowTime.sum * fastTime.over ]
    ELSE [ num |-> 0, den |-> 1 ]

\* the guard put on the slowest time instead of the fastest
percentFasterGuardsSlowest(fastTime, slowTime) ==
    IF slowTime.sum > 0
    THEN [ num |-> (slowTime.sum * fastTime.over - fastTime.sum * slowTime.over) * 100,
           den |-> fastTime.sum * slowTime.over ]
    ELSE [ num |-> 0, den |-> 1 ]

\* fastTime > 0 ? ((slowTime / fastTime) - 1) * 100 : 0, kept as one quotient
percentFasterOf(fastTime, slowTime) ==
    IF fastTime.sum > 0
    THEN [ num |-> (slowTime.sum * fastTime.over - fastTime.sum * slowTime.over) * 100,
           den |-> fastTime.sum * slowTime.over ]
    ELSE [ num |-> 0, den |-> 1 ]

\* the BenchmarkReportData handed to setBenchmarkReport
buildReport(res) ==
    LET summary  == [ i \in 1..Len(benchLayers) |-> summaryOf(res, i) ]
        some     == Len(benchLayers) > 0
        fastest  == IF some THEN pickFastest(summary, 1, 1) ELSE 0
        slowest  == IF some THEN pickSlowest(summary, 1, 1) ELSE 0
        fastTime == IF some THEN summary[fastest].avgNavLoadTime ELSE Zero
        slowTime == IF some THEN summary[slowest].avgNavLoadTime ELSE Zero
    IN  [ present        |-> TRUE,
          steps          |-> res,
          summary        |-> summary,
          fastestLayerId |-> IF some THEN benchLayers[fastest].id ELSE NoId,
          slowestLayerId |-> IF some THEN benchLayers[slowest].id ELSE NoId,
          percentFaster  |-> percentFasterOf(fastTime, slowTime) ]

Log(kind, k, ms) == << kind, k, ms >>

\* runBenchmark callable while a run is in progress
runBenchmarkDuringRun ==
    /\ benchmarkReport = NoReport
    /\ isRunningBenchmark' = TRUE
    /\ benchmarkReport' = NoReport
    /\ originalRecording' = isRecordingRef
    /\ isRecording' = FALSE
    /\ isRecordingRef' = FALSE
    /\ subRunning' = TRUE
    /\ Rendered(FALSE, TRUE, isMapUpdating, rawMetrics, history, layers)
    /\ benchLayers' = metricLayers(layers)
    /\ results' = << >>
    /\ stepIdx' = 0
    /\ timer' = 0
    /\ timedOut' = FALSE
    /\ lastReport' = lastReport
    /\ pc' = "setup"
    /\ trace' = << Log("goTo", 0, 0) >>
    /\ UNCHANGED << layers, viewUpdating, isMapUpdating, layerStatusesRef,
                    benchmarkMetricsRef, nextMetricId, pubLog, eventStart, historyCapped, monVars, mapLayers >>

\* the click on Run Benchmark, up to the first await
runBenchmark ==
    /\ pc = "idle"
    /\ ~ isRunningBenchmark
    /\ benchmarkReport = NoReport
    /\ isRunningBenchmark' = TRUE
    /\ benchmarkReport' = NoReport
    /\ originalRecording' = isRecordingRef
    /\ isRecording' = FALSE
    /\ isRecordingRef' = FALSE
    /\ subRunning' = TRUE
    /\ Rendered(FALSE, TRUE, isMapUpdating, rawMetrics, history, layers)
    /\ benchLayers' = metricLayers(layers)
    /\ results' = << >>
    /\ stepIdx' = 0
    /\ timer' = 0
    /\ timedOut' = FALSE
    /\ lastReport' = lastReport
    /\ pc' = "setup"
    /\ trace' = << Log("goTo", 0, 0) >>
    /\ UNCHANGED << layers, viewUpdating, isMapUpdating, layerStatusesRef,
                    benchmarkMetricsRef, nextMetricId, pubLog, eventStart, historyCapped, monVars, mapLayers >>

\* a loop body that forgets to clear the accumulator
beginStepKeepsAccumulator(k, woke) ==
    /\ stepIdx' = k
    /\ pc' = "action"
    /\ timer' = 0
    /\ trace' = trace \o << woke, Log("reset", k, 0), Log("action", k, 0) >>
    /\ UNCHANGED << results, originalRecording, benchLayers, lastReport >>
    /\ UNCHANGED << layers, rawMetrics, history, isRecording, isRecordingRef,
                    viewUpdating, isMapUpdating, prevUpdatingRef, layerStatusesRef,
                    isRunningBenchmark, subRunning, benchmarkReport, benchmarkMetricsRef,
                    nextMetricId, pubLog, eventStart, historyCapped, monVars, mapLayers >>

\* the loop body of step k up to await step.action(); woke is what resumed the run
beginStep(k, woke) ==
    /\ stepIdx' = k
    /\ benchmarkMetricsRef' = << >>
    /\ pc' = "action"
    /\ timer' = 0
    /\ trace' = trace \o << woke, Log("reset", k, 0), Log("action", k, 0) >>
    /\ UNCHANGED << results, originalRecording, benchLayers, lastReport >>
    /\ UNCHANGED << layers, rawMetrics, history, isRecording, isRecordingRef,
                    viewUpdating, isMapUpdating, prevUpdatingRef, layerStatusesRef,
                    isRunningBenchmark, subRunning, benchmarkReport, nextMetricId,
                    pubLog, eventStart, historyCapped, monVars, mapLayers >>

\* from "Process Results" to the 800 ms timer
aggregateStep(waited) ==
    /\ results' = Append(results, stepResult(stepIdx, benchLayers, benchmarkMetricsRef))
    /\ pc' = "delay"
    /\ timer' = InterStepDelay
    /\ trace' = trace \o << waited, Log("aggregate", stepIdx, 0),
                            Log("sleep", stepIdx, InterStepDelay) >>
    /\ UNCHANGED << stepIdx, originalRecording, benchLayers, lastReport, appVars, eventStart, historyCapped, monVars, mapLayers >>

\* "Generate Report", setBenchmarkReport and the finally block
finishRun ==
    /\ benchmarkReport' = buildReport(results)
    /\ lastReport' = buildReport(results)
    /\ isRunningBenchmark' = FALSE
    /\ isRecording' = (IF originalRecording THEN TRUE ELSE isRecording)
    /\ isRecordingRef' = (IF originalRecording THEN TRUE ELSE isRecordingRef)
    /\ subRunning' = FALSE
    /\ Rendered(isRecording', FALSE, isMapUpdating, rawMetrics, history, layers)
    /\ pc' = "idle"
    /\ timer' = 0
    /\ trace' = Append(trace, Log("wake", stepIdx, InterStepDelay))
    /\ UNCHANGED << stepIdx, results, originalRecording, benchLayers, timedOut >>
    /\ UNCHANGED << layers, viewUpdating, isMapUpdating, layerStatusesRef,
                    benchmarkMetricsRef, nextMetricId, pubLog, eventStart, historyCapped, monVars, mapLayers >>

\* what runBenchmark does when its await waitForIdle() returns
afterIdle(r, e, o) ==
    /\ wpc' = "idle"
    /\ wres' = FALSE
    /\ timeout' = 0
    /\ elapsed' = 0
    /\ obs' = NoObs
    /\ timedOut' = (timedOut \/ ~ r)
    /\ UNCHANGED aggVars
    /\ IF pc = "setupWait"
       THEN beginStep(1, Log("idle-ret", 0, 0))
       ELSE aggregateStep(Log("idle-ret", stepIdx, 0))

stillWaiting(o) == UNCHANGED << obs, appVars, benchVars, aggVars, eventStart, historyCapped, monVars, mapLayers >>

\* the run is suspended on the setup's await waitForIdle()
setupWaits(o) ==
    /\ pc' = "setupWait"
    /\ trace' = Append(trace, Log("idle-call", 0, 0))
    /\ UNCHANGED << obs, stepIdx, results, originalRecording, benchLayers, lastReport, timer,
                    timedOut, appVars, aggVars, eventStart, historyCapped, monVars, mapLayers >>

\* the run is suspended on a nav step's await waitForIdle()
navWaits(o) ==
    /\ pc' = "wait"
    /\ trace' = trace \o << Log("action-done", stepIdx, 0), Log("idle-call", stepIdx, 0) >>
    /\ UNCHANGED << obs, stepIdx, results, originalRecording, benchLayers, lastReport, timer,
                    timedOut, appVars, aggVars, eventStart, historyCapped, monVars, mapLayers >>

(***************************************************************************)
(* The steps of waitForIdle.  Its caller is runBenchmark when a run is in  *)
(* progress, and otherwise a call made on its own; the step that makes     *)
(* waitForIdle return runs what the caller does next.                      *)
(***************************************************************************)
\* a call made on its own has returned r; what it last saw is kept
WaitReturn(r, e, o) ==
    /\ wpc' = "ret"
    /\ wres' = r
    /\ elapsed' = e
    /\ obs' = o
    /\ UNCHANGED << timeout, appVars, benchVars, aggVars, eventStart, historyCapped, monVars, mapLayers >>

\* a call made on its own is still pending; what it has just seen is kept
WaitStay(o) ==
    /\ obs' = o
    /\ UNCHANGED << appVars, benchVars, aggVars, eventStart, historyCapped, monVars, mapLayers >>

\* return r to the caller
waitReturns(r, e, o) ==
    IF pc = "idle" THEN WaitReturn(r, e, o) ELSE afterIdle(r, e, o)

\* the caller stays suspended on its await
waitStays(o) ==
    CASE pc = "idle"   -> WaitStay(o)
      [] pc = "setup"  -> setupWaits(o)
      [] pc = "action" -> navWaits(o)
      [] OTHER         -> stillWaiting(o)

\* const start = Date.now() and the first evaluation of the loop condition
waitForIdleCall(T, o) ==
    IF loopCondition(0, T)
    THEN /\ wpc' = "poll"
         /\ timeout' = T
         /\ elapsed' = 0
         /\ wres' = wres
         /\ waitStays(o)
    ELSE waitReturns(FALSE, 0, o)

\* the poll's 200 ms timer fires
waitPoll ==
    /\ wpc = "poll"
    /\ LET e   == elapsed + PollInterval
           o   == [obs EXCEPT !.poll = Observed(e), !.settle = NoObs.settle]
           out == pollOutcome(viewUpdating, layersBusy, e, timeout)
       IN  IF out = "false"
           THEN waitReturns(FALSE, e, o)
           ELSE /\ wpc' = out
                /\ elapsed' = e
                /\ UNCHANGED << timeout, wres >>
                /\ waitStays(o)

\* the settlement period's 800 ms timer fires
waitSettle ==
    /\ wpc = "settle"
    /\ LET e   == elapsed + SettleDelay
           o   == [obs EXCEPT !.settle = Observed(e)]
           out == settleOutcome(viewUpdating, layersBusy, e, timeout)
       IN  IF out = "poll"
           THEN /\ wpc' = "poll"
                /\ elapsed' = e
                /\ UNCHANGED << timeout, wres >>
                /\ waitStays(o)
           ELSE waitReturns(out = "true", e, o)

(***************************************************************************)
(* SpecWait: waitForIdle called alone, with every timeout of WaitTimeouts, *)
(* while the view's and the layers' signals change freely.                 *)
(***************************************************************************)
TimeoutStep == 100
MaxTimeoutSteps == 14

WaitTimeouts == { k * TimeoutStep : k \in 0..MaxTimeoutSteps } \cup { DefaultTimeout }

WaitLayers == DEFAULT_LAYERS \o << Layer("la", UrlA, FALSE) >>

\* the view's signal changes while the waiter is not observing
WaitViewChange ==
    /\ onMapUpdate(MaxHistory)
    /\ obs' = [obs EXCEPT !.everIdle = TRUE, !.quiet = FALSE]
    /\ UNCHANGED << wpc, timeout, elapsed, wres, benchVars, aggVars >>

\* the layers of the list, by id
trackedIds == { layers[i].id : i \in 1..Len(layers) }

\* the view and every layer of the list are idle
quietNow == ~ viewUpdating /\ layerStatusesRef \cap trackedIds = {}

\* the layer view of a layer of the list reports a change of its updating property
WaitLayerChange ==
    /\ handleLayerStatusChange(trackedIds)
    /\ obs' = [obs EXCEPT !.quiet = FALSE]
    /\ UNCHANGED << wpc, timeout, elapsed, wres, benchVars, aggVars >>

WaitInit ==
    /\ layers = WaitLayers
    /\ AppIdle /\ BenchIdle /\ WaitIdle
    /\ batch = << >>
    /\ stats = NoStats
    /\ eventStart = 1
    /\ historyCapped = FALSE
    /\ MonIdle
    /\ mapLayers = << >>

WaitNext ==
    \/ (/\ wpc = "idle"
        /\ \E T \in WaitTimeouts :
              waitForIdleCall(T, [NoObs EXCEPT !.everIdle = ~ viewUpdating,
                                               !.quiet = quietNow]))
    \/ waitPoll
    \/ waitSettle
    \/ WaitViewChange
    \/ WaitLayerChange
    \/ (handleRemoveLayer /\ UNCHANGED << benchVars, waitVars, aggVars >>)

SpecWait == WaitInit /\ [][WaitNext]_vars

\* SpecWait with the two timers of waitForIdle firing
SpecWaitFair == SpecWait /\ WF_vars(waitPoll) /\ WF_vars(waitSettle)

(***************************************************************************)
(* runBenchmark resumed by its awaits                                      *)
(***************************************************************************)
\* the setup navigation's goTo resolves
setupGoToResolves ==
    /\ pc = "setup"
    /\ waitForIdleCall(DefaultTimeout, NoObs)

\* a nav step that aggregates as soon as its goTo resolves
navActionResolvesNoWait ==
    /\ pc = "action"
    /\ allSteps[stepIdx].type = "nav"
    /\ aggregateStep(Log("action-done", stepIdx, 0))
    /\ UNCHANGED << timedOut, waitVars, aggVars >>

\* a nav step's goTo resolves
navActionResolves ==
    /\ pc = "action"
    /\ allSteps[stepIdx].type = "nav"
    /\ waitForIdleCall(DefaultTimeout, NoObs)

\* a query step's Promise.all resolves
queryActionResolves ==
    /\ pc = "action"
    /\ allSteps[stepIdx].type = "query"
    /\ pc' = "grace"
    /\ timer' = GraceDelay
    /\ trace' = trace \o << Log("action-done", stepIdx, 0), Log("sleep", stepIdx, GraceDelay) >>
    /\ UNCHANGED << stepIdx, results, originalRecording, benchLayers, lastReport, timedOut,
                    appVars, waitVars, aggVars, eventStart, historyCapped, monVars, mapLayers >>

\* the 2000 ms timer of a query step fires
graceElapses ==
    /\ pc = "grace"
    /\ aggregateStep(Log("wake", stepIdx, GraceDelay))
    /\ UNCHANGED << timedOut, waitVars, aggVars >>

\* the 800 ms timer after a step fires: the next step, or the report
delayElapses ==
    /\ pc = "delay"
    /\ IF stepIdx < Len(allSteps)
       THEN beginStep(stepIdx + 1, Log("wake", stepIdx, InterStepDelay))
       ELSE finishRun
    /\ UNCHANGED << timedOut, waitVars, aggVars >>

\* a run whose catch block stores an empty report before the finally block
abortRunStoresReport(k) ==
    /\ benchmarkReport' = buildReport(results)
    /\ isRunningBenchmark' = FALSE
    /\ isRecording' = (IF originalRecording THEN TRUE ELSE isRecording)
    /\ isRecordingRef' = (IF originalRecording THEN TRUE ELSE isRecordingRef)
    /\ subRunning' = FALSE
    /\ Rendered(isRecording', FALSE, isMapUpdating, rawMetrics, history, layers)
    /\ pc' = "idle"
    /\ timer' = 0
    /\ trace' = Append(trace, Log("rejected", k, 0))
    /\ UNCHANGED << stepIdx, results, originalRecording, benchLayers, lastReport, timedOut >>
    /\ UNCHANGED << layers, viewUpdating, isMapUpdating, layerStatusesRef,
                    benchmarkMetricsRef, nextMetricId, pubLog, eventStart, historyCapped, monVars, mapLayers >>

\* a finally block that leaves the running flag set
abortRunStaysRunning(k) ==
    /\ isRecording' = (IF originalRecording THEN TRUE ELSE isRecording)
    /\ isRecordingRef' = (IF originalRecording THEN TRUE ELSE isRecordingRef)
    /\ Rendered(isRecording', TRUE, isMapUpdating, rawMetrics, history, layers)
    /\ pc' = "idle"
    /\ timer' = 0
    /\ trace' = Append(trace, Log("rejected", k, 0))
    /\ UNCHANGED << stepIdx, results, originalRecording, benchLayers, lastReport, timedOut >>
    /\ UNCHANGED << layers, viewUpdating, isMapUpdating, layerStatusesRef, isRunningBenchmark,
                    subRunning, benchmarkReport, benchmarkMetricsRef, nextMetricId, pubLog,
                    eventStart, historyCapped, monVars, mapLayers >>

\* an await of the try block rejects while step k (0: the setup) is in progress:
\* the catch block logs the error and the finally block ends the run
abortRun(k) ==
    /\ isRunningBenchmark' = FALSE
    /\ isRecording' = (IF originalRecording THEN TRUE ELSE isRecording)
    /\ isRecordingRef' = (IF originalRecording THEN TRUE ELSE isRecordingRef)
    /\ subRunning' = FALSE
    /\ Rendered(isRecording', FALSE, isMapUpdating, rawMetrics, history, layers)
    /\ pc' = "idle"
    /\ timer' = 0
    /\ trace' = Append(trace, Log("rejected", k, 0))
    /\ UNCHANGED << stepIdx, results, originalRecording, benchLayers, lastReport, timedOut >>
    /\ UNCHANGED << layers, viewUpdating, isMapUpdating, layerStatusesRef, benchmarkReport,
                    benchmarkMetricsRef, nextMetricId, pubLog, eventStart, historyCapped, monVars, mapLayers >>

\* the setup navigation's goTo rejects
setupGoToRejects ==
    /\ pc = "setup"
    /\ abortRun(0)
    /\ UNCHANGED << waitVars, aggVars >>

\* a nav step's goTo rejects: step.action() has no handler of its own
navActionRejects ==
    /\ pc = "action"
    /\ allSteps[stepIdx].type = "nav"
    /\ abortRun(stepIdx)
    /\ UNCHANGED << waitVars, aggVars >>

\* a query step's queryFeatures rejects: its .catch logs the failure and
\* Promise.all resolves
queryActionAbsorbs ==
    /\ pc = "action"
    /\ allSteps[stepIdx].type = "query"
    /\ pc' = "grace"
    /\ timer' = GraceDelay
    /\ trace' = trace \o << Log("query-failed", stepIdx, 0),
                            Log("action-done", stepIdx, 0),
                            Log("sleep", stepIdx, GraceDelay) >>
    /\ UNCHANGED << stepIdx, results, originalRecording, benchLayers, lastReport, timedOut,
                    appVars, waitVars, aggVars, eventStart, historyCapped, monVars, mapLayers >>

\* the report's Close button: onClose={() => setBenchmarkReport(null)}
closeReport ==
    /\ benchmarkReport # NoReport
    /\ benchmarkReport' = NoReport
    /\ Rendered(isRecording, isRunningBenchmark, isMapUpdating, rawMetrics, history, layers)
    /\ UNCHANGED << layers, isRecording, isRecordingRef, viewUpdating, isMapUpdating,
                    layerStatusesRef, isRunningBenchmark, subRunning, benchmarkMetricsRef,
                    nextMetricId, pubLog, eventStart, historyCapped, monVars, mapLayers >>

(***************************************************************************)
(* SpecBench: one benchmark run, started from an App that is not           *)
(* recording, one that is recording with a request in its batch, and one   *)
(* that is recording in the middle of a map event; requests complete and   *)
(* the view's and the layers' signals change at any moment of the run.     *)
(***************************************************************************)
BenchMaxPublished == 1     \* metrics published in one behaviour of SpecBench
BenchMaxHistory == 2       \* snapshots after which SpecBench stops observing the view

BenchAppLayers == DEFAULT_LAYERS \o << Layer("la", UrlA, FALSE) >>

BenchUrls == { << "s", "/", "a", "/", "7" >> }

BenchShapes == { << 100, 300, 200 >> }

\* the layers whose views report their updating property during the run
BenchBusyLayers == { "la" }

\* a request that completed before the behaviour starts
FirstMetric == Metric(0, << "s", "/", "a", "/", "7" >>, 100, 300, 200)

\* the App was recording when the first request completed
AppRecordingOne(busy) ==
    /\ rawMetrics = << FirstMetric >>
    /\ history = << >>
    /\ isRecording = TRUE
    /\ isRecordingRef = TRUE
    /\ viewUpdating = busy
    /\ isMapUpdating = busy
    /\ prevUpdatingRef = busy
    /\ layerStatusesRef = {}
    /\ isRunningBenchmark = FALSE
    /\ subRunning = FALSE
    /\ benchmarkReport = NoReport
    /\ benchmarkMetricsRef = << >>
    /\ nextMetricId = 1
    /\ pubLog = << >>

BenchInit ==
    /\ layers = BenchAppLayers
    /\ AppIdle \/ AppRecordingOne(FALSE) \/ AppRecordingOne(TRUE)
    /\ BenchIdle /\ WaitIdle
    /\ batch = << >>
    /\ stats = NoStats
    /\ eventStart = 0
    /\ historyCapped = FALSE
    /\ MonIdle
    /\ mapLayers = << >>

\* the behaviour has reached its benchmark run
RunSeen == pc # "idle" \/ benchmarkReport # NoReport

BenchNext ==
    \/ (runBenchmark /\ UNCHANGED << waitVars, aggVars >>)
    \/ setupGoToResolves
    \/ navActionResolves
    \/ queryActionResolves
    \/ waitPoll
    \/ waitSettle
    \/ graceElapses
    \/ delayElapses
    \/ (/\ RunSeen
        /\ Publish(BenchMaxPublished, BenchUrls, BenchShapes, TRUE)
        /\ UNCHANGED << benchVars, waitVars, aggVars >>)
    \/ (/\ RunSeen
        /\ onMapUpdate(BenchMaxHistory)
        /\ UNCHANGED << benchVars, waitVars, aggVars >>)
    \/ (/\ RunSeen
        /\ handleLayerStatusChange(BenchBusyLayers)
        /\ UNCHANGED << benchVars, waitVars, aggVars >>)
    \/ (RunSeen /\ handlePlay /\ UNCHANGED << benchVars, waitVars, aggVars >>)
    \/ (RunSeen /\ handlePause /\ UNCHANGED << benchVars, waitVars, aggVars >>)

SpecBench == BenchInit /\ [][BenchNext]_vars

(***************************************************************************)
(* SpecRuns: benchmark runs one after the other, any of whose navigations  *)
(* and queries may be rejected; the report of a finished run is closed     *)
(* before the next run, recording is switched between runs, and a request  *)
(* completes at any moment up to the first report.                         *)
(***************************************************************************)
RunsMaxPublished == 1      \* metrics published in one behaviour of SpecRuns

RunsInit ==
    /\ layers = BenchAppLayers
    /\ AppIdle
    /\ BenchIdle /\ WaitIdle
    /\ batch = << >>
    /\ stats = NoStats
    /\ eventStart = 0
    /\ historyCapped = FALSE
    /\ MonIdle
    /\ mapLayers = << >>

RunsNext ==
    \/ (runBenchmark /\ UNCHANGED << waitVars, aggVars >>)
    \/ setupGoToResolves
    \/ setupGoToRejects
    \/ navActionResolves
    \/ navActionRejects
    \/ queryActionResolves
    \/ queryActionAbsorbs
    \/ waitPoll
    \/ waitSettle
    \/ graceElapses
    \/ delayElapses
    \/ (closeReport /\ UNCHANGED << benchVars, waitVars, aggVars >>)
    \/ (handlePlay /\ UNCHANGED << benchVars, waitVars, aggVars >>)
    \/ (handlePause /\ UNCHANGED << benchVars, waitVars, aggVars >>)
    \/ (/\ lastReport = NoReport
        /\ Publish(RunsMaxPublished, BenchUrls, BenchShapes, TRUE)
        /\ UNCHANGED << benchVars, waitVars, aggVars >>)

SpecRuns == RunsInit /\ [][RunsNext]_vars

(***************************************************************************)
(* SpecHistory: a recording session long enough to fill the history log of *)
(* src/App.tsx, in both builds of App, with no Reset: recording is turned  *)
(* on and off, map events start and end, and requests complete while       *)
(* recording is on.                                                        *)
(***************************************************************************)
HistMaxPublished == 22     \* metrics published in one behaviour of SpecHistory
HistMaxHistory == 22       \* snapshots after which SpecHistory stops observing the view

HistInit ==
    /\ layers = BenchAppLayers
    /\ AppIdle
    /\ BenchIdle /\ WaitIdle
    /\ batch = << >>
    /\ stats = NoStats
    /\ eventStart = 1
    /\ historyCapped \in BOOLEAN
    /\ MonIdle
    /\ mapLayers = << >>

HistNext ==
    \/ (handlePlay /\ UNCHANGED << benchVars, waitVars, aggVars >>)
    \/ (handlePause /\ UNCHANGED << benchVars, waitVars, aggVars >>)
    \/ (onMapUpdate(HistMaxHistory) /\ UNCHANGED << benchVars, waitVars, aggVars >>)
    \/ (/\ isRecordingRef
        /\ Publish(HistMaxPublished, BenchUrls, BenchShapes, FALSE)
        /\ UNCHANGED << benchVars, waitVars, aggVars >>)

SpecHistory == HistInit /\ [][HistNext]_vars

(***************************************************************************)
(* SpecStream: a stream of metrics arriving when RawKeep metrics have      *)
(* already been published, either to the recording App or to a benchmark   *)
(* run suspended on its setup navigation.                                  *)
(***************************************************************************)
StreamExtra == 60

\* the RawKeep metrics published before the behaviour starts
Prefilled == [ i \in 1..RawKeep |-> Metric(i, << "s", "/", "a", "/", "7" >>, 100, 300, 200) ]

\* either the App has been recording since its start, or runBenchmark was
\* called at the start and its setup navigation is pending
StreamInit ==
    /\ layers = BenchAppLayers
    /\ history = << >>
    /\ viewUpdating = FALSE
    /\ isMapUpdating = FALSE
    /\ prevUpdatingRef = FALSE
    /\ layerStatusesRef = {}
    /\ benchmarkReport = NoReport
    /\ nextMetricId = RawKeep + 1
    /\ pubLog = << >>
    /\ \/ /\ rawMetrics = Prefilled
          /\ isRecording = TRUE
          /\ isRecordingRef = TRUE
          /\ isRunningBenchmark = FALSE
          /\ subRunning = FALSE
          /\ benchmarkMetricsRef = << >>
          /\ BenchIdle
       \/ /\ rawMetrics = << >>
          /\ isRecording = FALSE
          /\ isRecordingRef = FALSE
          /\ isRunningBenchmark = TRUE
          /\ subRunning = TRUE
          /\ benchmarkMetricsRef = Prefilled
          /\ pc = "setup"
          /\ stepIdx = 0
          /\ results = << >>
          /\ originalRecording = FALSE
          /\ benchLayers = metricLayers(BenchAppLayers)
          /\ timer = 0
          /\ timedOut = FALSE
          /\ lastReport = NoReport
          /\ trace = << Log("goTo", 0, 0) >>
    /\ WaitIdle
    /\ batch = << >>
    /\ stats = NoStats
    /\ eventStart = 0
    /\ historyCapped = FALSE
    /\ MonIdle
    /\ mapLayers = << >>

StreamNext ==
    \/ (/\ pc = "idle"
        /\ handlePlay
        /\ UNCHANGED << benchVars, waitVars, aggVars >>)
    \/ (/\ pc = "idle"
        /\ handlePause
        /\ UNCHANGED << benchVars, waitVars, aggVars >>)
    \/ (/\ isRecordingRef \/ pc = "setup"
        /\ Publish(RawKeep + StreamExtra, BenchUrls, BenchShapes, FALSE)
        /\ UNCHANGED << benchVars, waitVars, aggVars >>)

SpecStream == StreamInit /\ [][StreamNext]_vars

(***************************************************************************)
(* SpecReport: the report synthesis alone, on every list of fifteen step   *)
(* results in which at most MaxBusyEntries layer entries saw requests.     *)
(***************************************************************************)
MaxBusyEntries == 3

ReportLayers == DEFAULT_LAYERS \o << Layer("la", UrlA, FALSE), Layer("lb", UrlB, FALSE) >>

\* what a step may have measured for a layer: load time and request count
StepValues == { << 0, 0 >>, << 0, 1 >>, << 100, 1 >>, << 300, 2 >> }

\* the layer entries of the results in which requests were seen
busyEntries(res) ==
    { << k, i >> \in (1..Len(res)) \X (1..Len(benchLayers)) :
          res[k].layerMetrics[i].requestCount > 0 }

\* results.push({ stepName, type, layerMetrics }) with the step's measurements
pushStepResult ==
    /\ lastReport = NoReport
    /\ Len(results) < Len(allSteps)
    /\ \E lm \in [1..Len(benchLayers) -> StepValues] :
          LET k == Len(results) + 1
              r == [ stepName     |-> allSteps[k].name,
                     type         |-> allSteps[k].type,
                     layerMetrics |-> [ i \in 1..Len(benchLayers) |->
                                          [ id           |-> benchLayers[i].id,
                                            loadTime     |-> lm[i][1],
                                            requestCount |-> lm[i][2] ] ] ]
          IN  /\ Cardinality(busyEntries(Append(results, r))) <= MaxBusyEntries
              /\ results' = Append(results, r)
    /\ UNCHANGED << pc, stepIdx, originalRecording, benchLayers, timer, timedOut,
                    lastReport, trace >>
    /\ UNCHANGED << appVars, waitVars, aggVars, eventStart, historyCapped, monVars, mapLayers >>

\* Generate Report, once the loop over the steps has ended
generateReport ==
    /\ lastReport = NoReport
    /\ Len(results) = Len(allSteps)
    /\ lastReport' = buildReport(results)
    /\ UNCHANGED << pc, stepIdx, results, originalRecording, benchLayers, timer,
                    timedOut, trace >>
    /\ UNCHANGED << appVars, waitVars, aggVars, eventStart, historyCapped, monVars, mapLayers >>

ReportInit ==
    /\ AppIdle
    /\ WaitIdle
    /\ MonIdle
    /\ mapLayers = << >>
    /\ layers = ReportLayers
    /\ batch = << >>
    /\ stats = NoStats
    /\ eventStart = 1
    /\ historyCapped = FALSE
    /\ pc = "idle"
    /\ stepIdx = 0
    /\ results = << >>
    /\ originalRecording = FALSE
    /\ benchLayers = metricLayers(ReportLayers)
    /\ timer = 0
    /\ timedOut = FALSE
    /\ lastReport = NoReport
    /\ trace = << >>

ReportNext ==
    \/ pushStepResult
    \/ generateReport

SpecReport == ReportInit /\ [][ReportNext]_vars

(***************************************************************************)
(* services/monitor: the metric bus                                        *)
(***************************************************************************)
MaxSubscribeCalls == 3
MaxEmits == 2

\* position of a callback in the Set's insertion order, 0 when it is absent
indexOf(set, c) ==
    IF \E i \in 1..Len(set) : set[i] = c
    THEN CHOOSE i \in 1..Len(set) : set[i] = c
    ELSE 0

has(set, c) == indexOf(set, c) # 0

\* Set.prototype.add that puts a new value first
setAddFirst(set, c) == IF has(set, c) THEN set ELSE << c >> \o set

\* Set.prototype.add: a value already present keeps its place, a new one is last
setAdd(set, c) == IF has(set, c) THEN set ELSE Append(set, c)

\* Set.prototype.delete
setDelete(set, c) == SelectSeq(set, LAMBDA x : x # c)

\* what a subscribed callback does when invoked, besides receiving the
\* metric: it calls the unsubscribe function of one subscribed callback, or none
NoCall == "none"
members(set) == { set[i] : i \in 1..Len(set) }
Behaviours == [members(listeners) -> members(listeners) \cup { NoCall }]

\* Set.prototype.forEach with (l) => l(metric): values are visited in
\* insertion order; a value deleted before it is visited is not visited
RECURSIVE forEach(_, _, _, _)
forEach(set, i, beh, invoked) ==
    IF i > Len(set)
    THEN [listeners |-> set, invoked |-> invoked]
    ELSE LET l == set[i]
             j == indexOf(set, beh[l])
         IN  forEach(IF j = 0 THEN set ELSE setDelete(set, beh[l]),
                     IF j # 0 /\ j <= i THEN i ELSE i + 1,
                     beh,
                     Append(invoked, l))

\* notifyListeners(metric) with the callbacks behaving as beh: the bus after
\* the pass and the record of the pass
notifyListeners(id, beh) ==
    LET pass == forEach(listeners, 1, beh, << >>)
    IN  /\ listeners' = pass.listeners
        /\ subscribedAt' = [c \in Callbacks |->
                              IF has(pass.listeners, c) THEN subscribedAt[c] ELSE 0]
        /\ delivered' = [c \in Callbacks |->
                           IF \E k \in 1..Len(pass.invoked) : pass.invoked[k] = c
                           THEN Append(delivered[c], id)
                           ELSE delivered[c]]
        /\ lastPass' = [made |-> TRUE, id |-> id, at |-> subscribedAt,
                        invoked |-> pass.invoked,
                        unsubscribing |-> \E k \in 1..Len(pass.invoked) :
                                             beh[pass.invoked[k]] # NoCall]
        /\ UNCHANGED subscribeCalls

subscribeToMetrics(callback) ==
    /\ subscribeCalls < MaxSubscribeCalls
    /\ listeners' = setAdd(listeners, callback)
    /\ subscribeCalls' = subscribeCalls + 1
    /\ subscribedAt' = IF subscribedAt[callback] = 0
                       THEN [subscribedAt EXCEPT ![callback] = subscribeCalls + 1]
                       ELSE subscribedAt
    /\ UNCHANGED << lastPass, emitCount, delivered, icVars, restVars >>

\* the function subscribeToMetrics returned for the callback, called outside a publish
unsubscribe(callback) ==
    /\ has(listeners, callback)
    /\ listeners' = setDelete(listeners, callback)
    /\ subscribedAt' = [subscribedAt EXCEPT ![callback] = 0]
    /\ UNCHANGED << subscribeCalls, lastPass, emitCount, delivered, icVars, restVars >>

(***************************************************************************)
(* services/monitor: the request interceptor                               *)
(***************************************************************************)
MaxInitCalls == 3
MaxClock == 150
ShortTick == 30
LongTick == 120
FallbackSuccess == 50
FallbackError == 100
StatusOk == 200
StatusFallback == 500

MonUrls == { UrlA }
Unknown == << "u" >>
\* error.details?.httpStatus: 0 stands for an absent details or httpStatus
HttpStatuses == { 0, 200, 404, 503 }
Sizes == { 0, 64 }

\* initInterceptor without the initialized flag
initInterceptorEveryCall ==
    /\ initCalls < MaxInitCalls
    /\ initCalls' = initCalls + 1
    /\ initialized' = TRUE
    /\ registered' = IF configRequest THEN registered + 1 ELSE registered
    /\ UNCHANGED << configRequest, now, inFlight, emitted, busVars, restVars >>

initInterceptor ==
    /\ initCalls < MaxInitCalls
    /\ initCalls' = initCalls + 1
    /\ IF initialized
       THEN UNCHANGED << initialized, registered >>
       ELSE /\ initialized' = TRUE
            /\ registered' = IF configRequest THEN registered + 1 ELSE registered
    /\ UNCHANGED << configRequest, now, inFlight, emitted, busVars, restVars >>

\* Date.now() moves on
clockAdvances ==
    \E d \in { ShortTick, LongTick } :
        /\ now + d <= ClockStart + MaxClock
        /\ now' = now + d
        /\ UNCHANGED << initialized, configRequest, registered, inFlight, emitted,
                        initCalls, busVars, restVars >>

\* before(params): tag the request with a start time
before(params) ==
    IF params.hasOptions
    THEN [params EXCEPT !.customStartTime = now]
    ELSE params

\* the engine sends a request through the registered interceptor
sendRequest ==
    /\ registered > 0
    /\ inFlight = NoRequest
    /\ emitCount < MaxEmits
    /\ \E url \in MonUrls, hasOptions \in BOOLEAN :
          LET params == [sent |-> TRUE, url |-> url, hasOptions |-> hasOptions,
                         customStartTime |-> 0]
          IN  inFlight' = before(params)
    /\ UNCHANGED << initialized, configRequest, registered, now, emitted,
                    initCalls, busVars, restVars >>

\* requestOptions.customStartTime || (endTime + 50)
startTimeAhead(response, endTime) ==
    IF response.hasOptions /\ response.customStartTime # 0
    THEN response.customStartTime
    ELSE endTime + FallbackSuccess

\* requestOptions.customStartTime || (endTime - 50)
startTimeOf(response, endTime) ==
    IF response.hasOptions /\ response.customStartTime # 0
    THEN response.customStartTime
    ELSE endTime - FallbackSuccess

\* after(response): the request resolved
interceptorAfter ==
    /\ registered > 0
    /\ inFlight # NoRequest
    /\ \E size \in Sizes, beh \in Behaviours :
          LET endTime == now
              startTime == startTimeOf(inFlight, endTime)
              metric == [id |-> emitCount + 1, url |-> inFlight.url,
                         startTime |-> startTime, endTime |-> endTime,
                         duration |-> endTime - startTime,
                         status |-> StatusOk, size |-> size]
          IN  /\ emitted' = [by |-> "after", metric |-> metric,
                             stamped |-> inFlight.hasOptions /\ inFlight.customStartTime # 0]
              /\ emitCount' = emitCount + 1
              /\ notifyListeners(metric.id, beh)
    /\ inFlight' = NoRequest
    /\ UNCHANGED << initialized, configRequest, registered, now, initCalls, restVars >>

\* error.details?.httpStatus || 500
statusOf(httpStatus) == IF httpStatus # 0 THEN httpStatus ELSE StatusFallback

\* error(error): the request failed
interceptorError ==
    /\ registered > 0
    /\ inFlight # NoRequest
    /\ \E hasUrl \in BOOLEAN, httpStatus \in HttpStatuses, beh \in Behaviours :
          LET endTime == now
              metric == [id |-> emitCount + 1,
                         url |-> IF hasUrl THEN inFlight.url ELSE Unknown,
                         startTime |-> endTime - FallbackError, endTime |-> endTime,
                         duration |-> FallbackError,
                         status |-> statusOf(httpStatus), size |-> 0]
          IN  /\ emitted' = [by |-> "error", metric |-> metric, httpStatus |-> httpStatus]
              /\ emitCount' = emitCount + 1
              /\ notifyListeners(metric.id, beh)
    /\ inFlight' = NoRequest
    /\ UNCHANGED << initialized, configRequest, registered, now, initCalls, restVars >>

\* everything but services/monitor is parked
RestParked ==
    /\ AppIdle
    /\ BenchIdle
    /\ WaitIdle
    /\ layers = << >>
    /\ batch = << >>
    /\ stats = NoStats
    /\ eventStart = 1
    /\ historyCapped = FALSE
    /\ mapLayers = << >>

(***************************************************************************)
(* SpecBus: the metric bus with the interceptor registered, under every    *)
(* order of at most MaxSubscribeCalls subscribe calls, unsubscribe calls   *)
(* and at most MaxEmits requests, each callback calling one unsubscribe    *)
(* function or none when it is invoked.                                    *)
(***************************************************************************)
BusInit ==
    /\ RestParked
    /\ listeners = << >>
    /\ subscribedAt = [c \in Callbacks |-> 0]
    /\ subscribeCalls = 0
    /\ lastPass = NoPass
    /\ emitCount = 0
    /\ delivered = [c \in Callbacks |-> << >>]
    /\ initialized = TRUE
    /\ configRequest = TRUE
    /\ registered = 1
    /\ initCalls = 1
    /\ now = ClockStart
    /\ inFlight = NoRequest
    /\ emitted = NoMetric

BusNext ==
    \/ \E c \in Callbacks : subscribeToMetrics(c)
    \/ \E c \in Callbacks : unsubscribe(c)
    \/ sendRequest
    \/ interceptorAfter
    \/ interceptorError

SpecBus == BusInit /\ [][BusNext]_vars

(***************************************************************************)
(* SpecMonitor: the interceptor from the loading of services/monitor, with *)
(* the application's one callback, at most MaxInitCalls calls of           *)
(* initInterceptor and a clock that moves between the callbacks.           *)
(***************************************************************************)
AppCallback == "c1"

MonInit ==
    /\ RestParked
    /\ MonIdle

MonNext ==
    \/ subscribeToMetrics(AppCallback)
    \/ unsubscribe(AppCallback)
    \/ initInterceptor
    \/ clockAdvances
    \/ sendRequest
    \/ interceptorAfter
    \/ interceptorError

SpecMonitor == MonInit /\ [][MonNext]_vars

(***************************************************************************)
(* The idle waiter                                                         *)
(***************************************************************************)
\* at an observation the view was not updating and no layer was busy
ClearAt(o) == o.at >= 0 /\ o.clear

Returned == wpc = "ret"

\* C5: waitForIdle returns true only after two observations 800 ms apart at
\* both of which the view's signal is false and no layer is busy, hence never
\* before 1000 ms have elapsed.
C5_TrueNeedsTwoClearObservations ==
    (Returned /\ wres) =>
        /\ ClearAt(obs.poll)
        /\ ClearAt(obs.settle)
        /\ obs.settle.at = obs.poll.at + 800
        /\ obs.settle.at = elapsed
        /\ elapsed >= 1000

\* idle was confirmed at the second attempt, after a settlement re-check failed
C5_Witness ==
    /\ Returned /\ wres
    /\ elapsed = 2000
    /\ timeout = DefaultTimeout

\* C6: against a view signal that is true from the call on, waitForIdle(T)
\* returns false, at an elapsed time t with T <= t < T + 200.
C6_PermanentlyBusyTimesOut ==
    (Returned /\ ~ obs.everIdle) =>
        /\ wres = FALSE
        /\ timeout <= elapsed
        /\ elapsed < timeout + 200

\* a timeout that is no multiple of the poll interval has run out on a busy view
C6_Witness ==
    /\ Returned /\ ~ obs.everIdle
    /\ timeout = 500 /\ elapsed = 600
    /\ wres = FALSE

\* C7 as claimed: waitForIdle(T) never returns true at an elapsed time
\* greater than T.
C7_NeverTrueAfterTimeout ==
    (Returned /\ wres) => elapsed <= timeout

\* C7 as amended: waitForIdle(T) returns true only from a loop iteration that
\* began before T had elapsed, so at an elapsed time below T + 1000 ms; and
\* it returns false only once T has elapsed.
C7_TrueFromIterationBegunInTime ==
    /\ (Returned /\ wres) =>
          /\ obs.poll.at - 200 < timeout
          /\ elapsed < timeout + 1000
    /\ (Returned /\ ~ wres) => elapsed >= timeout

\* idle was confirmed after the timeout had elapsed
C7_Witness ==
    /\ Returned /\ wres
    /\ timeout = 1000 /\ elapsed = 1800

(***************************************************************************)
(* The event boundary detector                                             *)
(***************************************************************************)
\* some tracked layer has a request in the batch the current aggregate is made of
SomeTrackedRequest ==
    \E k \in 1..Len(rawMetrics), i \in 1..Len(metricLayers(layers)) :
        includes(toLowerCase(rawMetrics[k].url), toLowerCase(metricLayers(layers)[i].url))

BusyToIdle == viewUpdating /\ ~ viewUpdating'

IdleToBusy == ~ viewUpdating /\ viewUpdating'

\* C3: a busy-to-idle transition of the view signal, with recording active and
\* no benchmark running, appends exactly one snapshot when some tracked layer
\* has a request in the current aggregate and none when no tracked layer has;
\* the arrival of a metric (a re-evaluation of the detector) appends nothing.
C3_OneSnapshotPerEvent ==
    [][ /\ (BusyToIdle /\ isRecording /\ ~ isRunningBenchmark) =>
             IF SomeTrackedRequest
             THEN /\ Len(history') = Len(history) + 1
                  /\ SubSeq(history', 1, Len(history)) = history
             ELSE history' = history
        /\ (nextMetricId' # nextMetricId) => history' = history
      ]_vars

\* the view has just gone idle after a map event whose requests were recorded,
\* and the log holds the snapshot of that event
C3_Witness ==
    /\ isRecording /\ ~ isRunningBenchmark
    /\ ~ viewUpdating /\ ~ prevUpdatingRef
    /\ SomeTrackedRequest
    /\ rawMetrics[1].id >= eventStart /\ eventStart > 1
    /\ Len(history) = 1

\* C4: when the view signal goes from false to true with recording active and
\* no benchmark running, the batch is emptied, so the snapshot taken at the
\* following busy-to-idle transition aggregates only metrics published after
\* that clear; with recording off or a benchmark running the same transition
\* leaves the batch unchanged.
C4_EventStartClearsBatch ==
    [][ /\ (IdleToBusy /\ isRecording /\ ~ isRunningBenchmark) => rawMetrics' = << >>
        /\ (IdleToBusy /\ (~ isRecording \/ isRunningBenchmark)) => rawMetrics' = rawMetrics
        /\ (BusyToIdle /\ isRecording /\ ~ isRunningBenchmark /\ Len(history') > Len(history)) =>
              /\ \A k \in 1..Len(rawMetrics) : rawMetrics[k].id >= eventStart
              /\ history'[Len(history')].layerDurations =
                    LET agg == calculateMetrics(metricLayers(layers), rawMetrics)
                    IN  { << agg[i].id, agg[i].loadTime >> : i \in 1..Len(agg) }
      ]_vars

\* after a benchmark run the view went busy with recording on, which dropped
\* the request recorded before the run; the event's own request is in the
\* batch its snapshot was made of
C4_Witness ==
    /\ benchmarkReport # NoReport
    /\ originalRecording
    /\ isRecording /\ ~ isRunningBenchmark
    /\ ~ viewUpdating
    /\ eventStart = 1
    /\ Len(rawMetrics) = 1 /\ rawMetrics[1].id = 1
    /\ Len(history) > 0

(***************************************************************************)
(* The benchmark run                                                       *)
(***************************************************************************)
\* the fifteen steps of a run, written out
ExpectedSteps ==
    << [name |-> << "Nav", 1, "Montpelier", 10 >>,    type |-> "nav"],
       [name |-> << "Nav", 2, "Burlington", 11 >>,    type |-> "nav"],
       [name |-> << "Nav", 3, "Rutland", 12 >>,       type |-> "nav"],
       [name |-> << "Nav", 4, "St. Albans", 13 >>,    type |-> "nav"],
       [name |-> << "Nav", 5, "Brattleboro", 14 >>,   type |-> "nav"],
       [name |-> << "Nav", 6, "Middlebury", 15 >>,    type |-> "nav"],
       [name |-> << "Nav", 7, "Newport", 16 >>,       type |-> "nav"],
       [name |-> << "Nav", 8, "Bennington", 10 >>,    type |-> "nav"],
       [name |-> << "Nav", 9, "St. Johnsbury", 11 >>, type |-> "nav"],
       [name |-> << "Nav", 10, "Stowe", 12 >>,        type |-> "nav"],
       [name |-> << "Query", 1, "Features" >>,        type |-> "query"],
       [name |-> << "Query", 2, "Features" >>,        type |-> "query"],
       [name |-> << "Query", 3, "Features" >>,        type |-> "query"],
       [name |-> << "Query", 4, "Features" >>,        type |-> "query"],
       [name |-> << "Query", 5, "Features" >>,        type |-> "query"] >>

\* res names the first Len(res) expected steps, in order
StepsAsExpected(res) ==
    /\ Len(res) <= Len(ExpectedSteps)
    /\ \A k \in 1..Len(res) :
          /\ res[k].stepName = ExpectedSteps[k].name
          /\ res[k].type = ExpectedSteps[k].type

\* C8: every run that produces a report has exactly 15 step results, 10 of
\* type nav followed by 5 of type query, with the same names in the same
\* order, whatever metrics arrive and whatever the idle waiter returns.
C8_ReportHasTheFifteenSteps ==
    /\ StepsAsExpected(results)
    /\ benchmarkReport # NoReport =>
          /\ Len(benchmarkReport.steps) = 15
          /\ StepsAsExpected(benchmarkReport.steps)
          /\ \A k \in 1..15 : benchmarkReport.steps[k].type = (IF k <= 10 THEN "nav" ELSE "query")

\* a report of a run in which a wait timed out and a request was counted
C8_Witness ==
    /\ benchmarkReport # NoReport
    /\ timedOut
    /\ \E k \in 1..Len(benchmarkReport.steps) :
          benchmarkReport.steps[k].layerMetrics[1].requestCount > 0

\* what one step does, in order
StepEvents(k) ==
    << Log("reset", k, 0), Log("action", k, 0), Log("action-done", k, 0) >>
    \o (IF k <= 10
        THEN << Log("idle-call", k, 0), Log("idle-ret", k, 0) >>
        ELSE << Log("sleep", k, 2000), Log("wake", k, 2000) >>)
    \o << Log("aggregate", k, 0), Log("sleep", k, 800), Log("wake", k, 800) >>

RECURSIVE EventsUpTo(_)
EventsUpTo(k) == IF k = 0 THEN << >> ELSE EventsUpTo(k - 1) \o StepEvents(k)

\* the setup navigation and its idle wait, then the fifteen steps
ExpectedTrace ==
    << Log("goTo", 0, 0), Log("idle-call", 0, 0), Log("idle-ret", 0, 0) >> \o EventsUpTo(15)

IsPrefix(a, b) == Len(a) <= Len(b) /\ SubSeq(b, 1, Len(a)) = a

\* C9: each step resets the accumulator, acts, waits (the idle waiter for a
\* nav step, 2000 ms for a query step), aggregates and sleeps 800 ms, in that
\* order; a step begins only after the previous step's delay has completed,
\* and step 1 only after the setup navigation and its idle wait have returned.
C9_StepsRunInOrder ==
    /\ IsPrefix(trace, ExpectedTrace)
    /\ Len(results) = Cardinality({ j \in 1..Len(trace) : trace[j][1] = "aggregate" })
    /\ timer > 0 => trace[Len(trace)] = Log("sleep", stepIdx, timer)

\* a run has gone through the setup and its fifteen steps
C9_Witness ==
    /\ trace = ExpectedTrace
    /\ pc = "idle"
    /\ Len(results) = 15

\* the entries of the publication log that fall between step k's reset and
\* its aggregation and belong to tracked layer i of the run
InWindow(k, i) ==
    { j \in 1..Len(pubLog) :
        /\ pubLog[j].step = k
        /\ pubLog[j].at \in { "action", "wait", "grace" }
        /\ UrlMatches(pubLog[j].m, benchLayers[i])
        /\ \A h \in 1..(i - 1) : ~ UrlMatches(pubLog[j].m, benchLayers[h]) }

\* C10: a step's result counts exactly the metrics published between that
\* step's reset and its aggregation; a metric is counted in at most one step
\* result, and none published before the step's reset contributes to it.
C10_StepCountsItsOwnWindow ==
    \A k \in 1..Len(results) :
        \A i \in 1..Len(benchLayers) :
            /\ results[k].layerMetrics[i].requestCount = Cardinality(InWindow(k, i))
            /\ results[k].layerMetrics[i].loadTime =
                  IF InWindow(k, i) = {} THEN 0
                  ELSE SetMax({ pubLog[j].m.endTime : j \in InWindow(k, i) })
                       - SetMin({ pubLog[j].m.startTime : j \in InWindow(k, i) })

\* a request published while step 3 waited is counted by step 3 and not by step 4
C10_Witness ==
    /\ Len(results) >= 4
    /\ Len(pubLog) = 1 /\ pubLog[1].step = 3 /\ pubLog[1].at = "wait"
    /\ results[3].layerMetrics[1].requestCount = 1
    /\ results[4].layerMetrics[1].requestCount = 0

(***************************************************************************)
(* Failing runs                                                            *)
(***************************************************************************)
\* the events of the current run that record a rejection at a step (k >= 1)
StepFailures == { i \in 1..Len(trace) :
                    trace[i][1] \in { "rejected", "query-failed" } /\ trace[i][2] >= 1 }

\* this step is the one in which a started run ends
RunEnds == pc # "idle" /\ pc' = "idle"

\* this step is the one in which runBenchmark is called
RunStarts == pc = "idle" /\ pc' # "idle"

\* C11: when a run in which a step's action was rejected (a navigation's goTo
\* or a query's queryFeatures) ends, it ends after its last step and stores
\* a report with all 15 step results
C11_StepFailureIsAbsorbed ==
    [][ (RunEnds /\ StepFailures' # {})
          => /\ stepIdx = Len(allSteps)
             /\ benchmarkReport' # NoReport
             /\ Len(benchmarkReport'.steps) = Len(allSteps) ]_vars

\* C12: the step that ends a started run - after its last step, or by a
\* rejected setup navigation or step - leaves the running flag false and the
\* isRecording state and isRecordingRef at the value they had when
\* runBenchmark was called
C12_RunEndRestoresFlags ==
    [][ /\ RunStarts => (originalRecording' = isRecording /\ originalRecording' = isRecordingRef)
        /\ (pc # "idle" /\ pc' # "idle") => originalRecording' = originalRecording
        /\ RunEnds => /\ ~ isRunningBenchmark'
                      /\ isRecording' = originalRecording
                      /\ isRecordingRef' = originalRecording ]_vars

\* a run that began while recording has ended by the rejection of its third
\* step, and recording is on again
C12_Witness ==
    /\ pc = "idle"
    /\ originalRecording
    /\ isRecording /\ isRecordingRef /\ ~ isRunningBenchmark
    /\ trace # << >>
    /\ trace[Len(trace)] = Log("rejected", 3, 0)

\* this step ends a run by a rejection caught by the catch block of the run
RunFails == RunEnds /\ trace'[Len(trace')][1] = "rejected"

\* C13: after a run fails, the stored benchmark report is the report of the
\* last run that produced one
C13_FailedRunKeepsLastReport ==
    [][ RunFails => benchmarkReport' = lastReport ]_vars

\* the last run was ended by its catch block and no run has started since
Failed == pc = "idle" /\ trace # << >> /\ trace[Len(trace)][1] = "rejected"

\* C14: the step in which an await of the run throws stores no report and
\* adds no step result; until the next run is started nothing more of the
\* run is executed and no report appears; a report that is stored has the
\* results of all the steps, never of the steps completed so far
C14_FailedRunStoresNothing ==
    [][ /\ RunFails => (benchmarkReport' = NoReport /\ results' = results)
        /\ (Failed /\ pc' = "idle")
              => (trace' = trace /\ results' = results /\ benchmarkReport' = NoReport)
        /\ benchmarkReport' # NoReport
              => Len(benchmarkReport'.steps) = Len(allSteps) ]_vars

\* a run was ended by a rejection after two steps had been aggregated
C14_Witness ==
    /\ Failed
    /\ Len(results) = 2
    /\ stepIdx = 3
    /\ benchmarkReport = NoReport
    /\ ~ isRunningBenchmark

(***************************************************************************)
(* The detector during a run                                               *)
(***************************************************************************)
\* C15: no step from the call of runBenchmark up to (not including) the step
\* that ends the run changes the raw-metrics batch or the history log, and a
\* metric published in between is appended to the benchmark accumulator
C15_RunLeavesBatchAndHistory ==
    [][ /\ pc' # "idle" => (rawMetrics' = rawMetrics /\ history' = history)
        /\ (pc # "idle" /\ pc' # "idle" /\ nextMetricId' # nextMetricId)
              => benchmarkMetricsRef'
                   = Append(benchmarkMetricsRef, pubLog'[Len(pubLog')].m) ]_vars

\* during a run started while recording in the middle of a map event, the
\* view has gone idle and a request has completed: the batch still holds the
\* request it held, no snapshot was taken, the accumulator has the new request
C15_Witness ==
    /\ pc # "idle"
    /\ originalRecording
    /\ ~ viewUpdating /\ prevUpdatingRef
    /\ rawMetrics = << FirstMetric >>
    /\ history = << >>
    /\ Len(benchmarkMetricsRef) = 1
    /\ Len(pubLog) = 1

C17_IdsAreSequential ==
    \A i \in 1..(Len(history) - 1) : history[i + 1].id = history[i].id + 1

(***************************************************************************)
(* The summaries' invariants                                               *)
(***************************************************************************)
\* C18: in every summary returned by calculateMetrics, requestCount is 0
\* exactly when loadTime is 0
C18_NoRequestsIffNoLoadTime ==
    stats.fresh =>
        \A i \in 1..Len(stats.sums) :
            (stats.sums[i].requestCount = 0) <=> (stats.sums[i].loadTime = 0)

\* every metric of the batch has endTime >= startTime and duration = endTime - startTime
WellTimed ==
    \A k \in 1..Len(batch) :
        /\ batch[k].endTime >= batch[k].startTime
        /\ batch[k].duration = batch[k].endTime - batch[k].startTime

\* C19 as stated: in every summary with more than one request, loadTime is
\* at most totalDuration, whether or not the requests overlap
C19_LoadTimeAtMostTotal ==
    (stats.fresh /\ WellTimed) =>
        \A i \in 1..Len(stats.sums) :
            stats.sums[i].requestCount > 1
                => stats.sums[i].loadTime <= stats.sums[i].totalDuration

\* the requests leave no gap: each one that is not among the earliest starts
\* no later than the end of one that started before it
NoGap(reqs) ==
    \A r \in 1..Len(reqs) :
        \/ \A q \in 1..Len(reqs) : reqs[q].startTime >= reqs[r].startTime
        \/ \E q \in 1..Len(reqs) :
              /\ reqs[q].startTime < reqs[r].startTime
              /\ reqs[r].startTime <= reqs[q].endTime

\* the idle time between the requests, for two requests
GapOfTwo(reqs) ==
    LET a == IF reqs[1].startTime <= reqs[2].startTime THEN reqs[1] ELSE reqs[2]
        b == IF reqs[1].startTime <= reqs[2].startTime THEN reqs[2] ELSE reqs[1]
    IN  IF b.startTime > a.endTime THEN b.startTime - a.endTime ELSE 0

\* C19: in every summary with more than one request whose requests leave no
\* gap in time, loadTime is at most totalDuration; in a summary of two
\* requests separated by a gap, loadTime is totalDuration plus the gap
C19_LoadTimeAtMostTotalWithoutGaps ==
    (stats.fresh /\ WellTimed) =>
        \A i \in 1..Len(stats.sums) :
            /\ (stats.sums[i].requestCount > 1 /\ NoGap(stats.sums[i].requests))
                  => stats.sums[i].loadTime <= stats.sums[i].totalDuration
            /\ (stats.sums[i].requestCount = 2 /\ ~ NoGap(stats.sums[i].requests))
                  => stats.sums[i].loadTime
                       = stats.sums[i].totalDuration + GapOfTwo(stats.sums[i].requests)

\* a summary of two overlapping requests, (100,300) and (150,250), has been
\* returned: its span of 200 is below the sum of 300
C19_Witness ==
    /\ stats.fresh
    /\ WellTimed
    /\ \E i \in 1..Len(stats.sums) :
          /\ stats.sums[i].requestCount = 2
          /\ NoGap(stats.sums[i].requests)
          /\ stats.sums[i].loadTime = 200
          /\ stats.sums[i].totalDuration = 300

\* C20: calculateMetrics returns one summary for each layer that is not
\* flagged excludeFromMetrics and none for a flagged layer, and a summary
\* that no request of the batch belongs to has requestCount 0 and loadTime 0
C20_OneSummaryPerTrackedLayer ==
    stats.fresh =>
        /\ \A j \in 1..Len(layers) :
              Cardinality({ i \in 1..Len(stats.sums) : stats.sums[i].id = layers[j].id })
                 = IF layers[j].excludeFromMetrics THEN 0 ELSE 1
        /\ \A i \in 1..Len(stats.sums) :
              /\ \E j \in 1..Len(layers) :
                    layers[j].id = stats.sums[i].id /\ ~ layers[j].excludeFromMetrics
              /\ Belonging(i) = {}
                    => /\ stats.sums[i].requestCount = 0
                       /\ stats.sums[i].loadTime = 0
                       /\ stats.sums[i].requests = << >>

\* a batch whose requests all fall under an excluded layer's URL: the one
\* tracked layer has an empty summary and the excluded layer has none
C20_Witness ==
    /\ stats.fresh
    /\ Len(layers) = 2
    /\ layers[1].excludeFromMetrics /\ layers[1].url = UrlA
    /\ Len(batch) = 2
    /\ \A k \in 1..Len(batch) : UrlMatches(batch[k], layers[1])
    /\ Len(stats.sums) = 1
    /\ stats.sums[1].id = layers[2].id
    /\ stats.sums[1].requestCount = 0
    /\ stats.sums[1].loadTime = 0

\* C21: every call of calculateMetrics returns a summary for each tracked
\* layer, and a layer whose URL does not parse gets an empty domain
C21_UnparsableUrlGetsEmptyDomain ==
    stats # NoStats =>
        /\ stats.fresh
        /\ Len(stats.sums) = Len(Tracked)
        /\ \A i \in 1..Len(Tracked) :
              ~ urlParses(Tracked[i].url) => stats.sums[i].domain = << >>

(***************************************************************************)
(* The metric bus                                                          *)
(***************************************************************************)
\* the callbacks subscribed, given the number of the subscribe call that
\* added each
Subscribed(at) == { c \in Callbacks : at[c] > 0 }

\* the pass invoked exactly the callbacks subscribed when it began, each
\* once, in the order of the subscribe calls
InvokesSubscribersInOrder(pass) ==
    /\ members(pass.invoked) = Subscribed(pass.at)
    /\ Len(pass.invoked) = Cardinality(Subscribed(pass.at))
    /\ \A i, j \in 1..Len(pass.invoked) :
          i < j => pass.at[pass.invoked[i]] < pass.at[pass.invoked[j]]

\* C22: a publish during which no callback calls an unsubscribe function
\* invokes every callback subscribed at that moment exactly once, in the
\* order of the subscribe calls, and no unsubscribed callback; and every
\* callback receives the metrics in the order of their publication
C22_PublishInvokesSubscribersInOrder ==
    /\ (lastPass.made /\ ~ lastPass.unsubscribing) => InvokesSubscribersInOrder(lastPass)
    /\ \A c \in Callbacks : \A i, j \in 1..Len(delivered[c]) :
          i < j => delivered[c][i] < delivered[c][j]

C22_Witness ==
    /\ lastPass.made
    /\ ~ lastPass.unsubscribing
    /\ lastPass.id = 2
    /\ lastPass.invoked = << "c2", "c1" >>
    /\ lastPass.at["c3"] = 0
    /\ delivered["c2"] = << 1, 2 >>

\* C23: every publish, also one during which a callback calls an unsubscribe
\* function, invokes every callback subscribed when it began exactly once
C23_UnsubscribeDuringPublishLeavesPass ==
    lastPass.made => InvokesSubscribersInOrder(lastPass)

(***************************************************************************)
(* The request interceptor                                                 *)
(***************************************************************************)
Emitted == emitted # NoMetric

\* C24: every metric the interceptor emits, from after with a stamped start,
\* from after with the fallback start and from error, has endTime >=
\* startTime and duration = endTime - startTime >= 0
C24_EndNotBeforeStart ==
    Emitted =>
        /\ emitted.metric.endTime >= emitted.metric.startTime
        /\ emitted.metric.duration = emitted.metric.endTime - emitted.metric.startTime
        /\ emitted.metric.duration >= 0

C24_Witness ==
    /\ Emitted
    /\ emitted.by = "after"
    /\ emitted.stamped
    /\ emitted.metric.startTime > ClockStart
    /\ emitted.metric.duration > FallbackError

C24_FallbackSeen == Emitted /\ emitted.by = "after" /\ ~ emitted.stamped
C24_ErrorSeen == Emitted /\ emitted.by = "error"

\* everything services/monitor and the engine's configuration hold
MonitorState == << initialized, configRequest, registered, now, inFlight, emitted,
                   listeners, subscribedAt, lastPass, emitCount, delivered >>

\* C25: once initInterceptor has been called, exactly one interceptor is
\* registered, and a second or later call changes nothing
C25_RegisteredOnce ==
    /\ [](initCalls >= 1 => registered = 1)
    /\ [][(initCalls >= 1 /\ initCalls' > initCalls) => UNCHANGED MonitorState]_vars

C25_Witness ==
    /\ initCalls = MaxInitCalls
    /\ registered = 1
    /\ Emitted

\* C26: every metric the error callback emits has a status of at least 400,
\* whatever error object it was given
C26_ErrorStatusInErrorRange ==
    (Emitted /\ emitted.by = "error") => emitted.metric.status >= 400

(***************************************************************************)
(* The idle waiter and the layer list                                      *)
(***************************************************************************)
\* the call returned, and from the call on the view and every layer of the
\* list were idle
QuietCallReturned == Returned /\ obs.quiet

\* C27: a call made with a positive timeout during which the view and the
\* layers of the list stay idle returns true, also when a layer was removed
\* while its last reported status was busy
C27_RemovedLayerIsForgotten ==
    (QuietCallReturned /\ timeout > 0) => wres

\* C28: when the view and every layer are idle from the call on and no
\* removed layer was left busy, waitForIdle(15000) returns true at
\* 200 + 800 ms, before the timeout
C28_QuietCallReturnsAfterOneRound ==
    (QuietCallReturned /\ layerStatusesRef = {} /\ timeout = DefaultTimeout) =>
        /\ wres
        /\ elapsed = PollInterval + SettleDelay
        /\ elapsed < timeout

C28_Witness ==
    /\ QuietCallReturned
    /\ layerStatusesRef = {}
    /\ timeout = DefaultTimeout
    /\ wres
    /\ elapsed = PollInterval + SettleDelay
    /\ obs.poll.at = PollInterval

\* a call is under way
Waiting == wpc \in { "poll", "settle" }

\* C29: every call of waitForIdle(T) returns, with true or false, and does so
\* no later than T + 200 + 800 ms after the call
C29_ReturnsWithinTimeoutPlusRound ==
    /\ [](Waiting => <> Returned)
    /\ []((Waiting \/ Returned) => elapsed <= timeout + PollInterval + SettleDelay)
    /\ [](Returned => wres \in BOOLEAN)

C29_Witness ==
    /\ Returned
    /\ ~ wres
    /\ elapsed > timeout + SettleDelay

(***************************************************************************)
(* The report's summary                                                    *)
(***************************************************************************)
\* the steps of a type, by their place in the report
StepsOfType(rep, type) == { k \in 1..Len(rep.steps) : rep.steps[k].type = type }

\* the sum of the i-th layer's load times over the steps ks
RECURSIVE LoadOver(_, _, _)
LoadOver(rep, i, ks) ==
    IF ks = {} THEN 0
    ELSE LET k == CHOOSE x \in ks : TRUE
         IN  rep.steps[k].layerMetrics[i].loadTime + LoadOver(rep, i, ks \ { k })

\* the sum of the i-th layer's request counts over the steps ks
RECURSIVE RequestsOver(_, _, _)
RequestsOver(rep, i, ks) ==
    IF ks = {} THEN 0
    ELSE LET k == CHOOSE x \in ks : TRUE
         IN  rep.steps[k].layerMetrics[i].requestCount + RequestsOver(rep, i, ks \ { k })

EligibleLayers == metricLayers(layers)

\* C30: in every report, for each metrics-eligible layer, avgNavLoadTime is
\* the layer's load time summed over the 10 navigation steps and divided by
\* 10, avgQueryLoadTime the sum over the 5 query steps divided by 5,
\* totalRequests the sum of its request counts over the 15 steps, and score
\* is avgNavLoadTime
C30_SummaryAveragesTheSteps ==
    lastReport.present =>
        /\ Len(lastReport.summary) = Len(EligibleLayers)
        /\ \A i \in 1..Len(EligibleLayers) :
              LET s == lastReport.summary[i]
              IN  /\ s.id = EligibleLayers[i].id
                  /\ Cardinality(StepsOfType(lastReport, "nav")) = NavCount
                  /\ Cardinality(StepsOfType(lastReport, "query")) = QueryCount
                  /\ s.avgNavLoadTime =
                        [ sum  |-> LoadOver(lastReport, i, StepsOfType(lastReport, "nav")),
                          over |-> NavCount ]
                  /\ s.avgQueryLoadTime =
                        [ sum  |-> LoadOver(lastReport, i, StepsOfType(lastReport, "query")),
                          over |-> QueryCount ]
                  /\ s.totalRequests =
                        RequestsOver(lastReport, i, 1..(NavCount + QueryCount))
                  /\ s.score = s.avgNavLoadTime

C30_Witness ==
    /\ lastReport.present
    /\ lastReport.summary[1].avgNavLoadTime.sum = 400
    /\ lastReport.summary[1].avgQueryLoadTime.sum = 100
    /\ lastReport.summary[1].totalRequests = 4
    /\ lastReport.summary[2].totalRequests = 0

(***************************************************************************)
(* The report's ranking                                                    *)
(***************************************************************************)
\* the i-th eligible layer's load time summed over the navigation steps of
\* the last report; its score is this sum over NavCount
NavLoad(i) == LoadOver(lastReport, i, StepsOfType(lastReport, "nav"))

\* the place of a layer id in the list of eligible layers
PlaceOf(id) == CHOOSE i \in 1..Len(EligibleLayers) : EligibleLayers[i].id = id

Ranked == lastReport.present /\ Len(EligibleLayers) > 0

\* C31: in every report with an eligible layer, fastestLayerId is the first
\* layer in list order with the least navigation average, slowestLayerId the
\* first with the greatest, the fastest's score is at most the slowest's, and
\* both are determined by the navigation steps alone
C31_FastestAndSlowestByScore ==
    Ranked =>
        /\ \E i \in 1..Len(EligibleLayers) : EligibleLayers[i].id = lastReport.fastestLayerId
        /\ \E i \in 1..Len(EligibleLayers) : EligibleLayers[i].id = lastReport.slowestLayerId
        /\ LET f == PlaceOf(lastReport.fastestLayerId)
               w == PlaceOf(lastReport.slowestLayerId)
           IN  /\ \A i \in 1..Len(EligibleLayers) :
                     /\ NavLoad(f) <= NavLoad(i)
                     /\ NavLoad(i) = NavLoad(f) => f <= i
                     /\ NavLoad(w) >= NavLoad(i)
                     /\ NavLoad(i) = NavLoad(w) => w <= i
               /\ ~ scoreLess(lastReport.summary[w].score, lastReport.summary[f].score)

\* the second layer is the fastest although its query steps took longer
C31_Witness ==
    /\ Ranked
    /\ lastReport.fastestLayerId = "lb"
    /\ lastReport.slowestLayerId = "la"
    /\ NavLoad(1) = 300
    /\ NavLoad(2) = 100
    /\ lastReport.summary[2].avgQueryLoadTime.sum = 300
    /\ lastReport.summary[1].avgQueryLoadTime.sum = 0

\* C32: in every report percentFaster is ((slowest score / fastest score) - 1)
\* x 100 when the fastest score is positive and 0 when it is 0; it is never
\* negative and its divisor is never 0
C32_PercentFasterGuarded ==
    Ranked =>
        LET F  == NavLoad(PlaceOf(lastReport.fastestLayerId))
            S  == NavLoad(PlaceOf(lastReport.slowestLayerId))
            pf == lastReport.percentFaster
        IN  /\ pf.den > 0
            /\ pf.num >= 0
            /\ F > 0 => pf.num * F = (S - F) * 100 * pf.den
            /\ F = 0 => pf.num = 0

\* slowest 400, fastest 100: 300 percent
C32_Witness ==
    /\ Ranked
    /\ NavLoad(PlaceOf(lastReport.fastestLayerId)) = 100
    /\ NavLoad(PlaceOf(lastReport.slowestLayerId)) = 400
    /\ lastReport.percentFaster.num = 300 * lastReport.percentFaster.den

\* the eligible layers with a score of 0
ScoreZero == { i \in 1..Len(EligibleLayers) : NavLoad(i) = 0 }

\* the eligible layers that received no request in any navigation step
NoNavRequest ==
    { i \in 1..Len(EligibleLayers) :
          RequestsOver(lastReport, i, StepsOfType(lastReport, "nav")) = 0 }

MostRecent(buffer) ==
    buffer # << >> =>
        /\ buffer[Len(buffer)].id = nextMetricId - 1
        /\ buffer[1].id = nextMetricId - Len(buffer)

\* C33: neither the raw-metrics buffer nor the benchmark accumulator ever
\* holds more than a fixed number of metrics (the raw buffer's 3000 + 1), and
\* each holds the metrics published last, in the order of publication
C33_BuffersBounded ==
    /\ Len(rawMetrics) <= RawKeep + 1
    /\ Len(benchmarkMetricsRef) <= RawKeep + 1
    /\ MostRecent(rawMetrics)
    /\ MostRecent(benchmarkMetricsRef)

\* the part of C33 that is about the raw-metrics buffer
C33_RawBufferBounded ==
    /\ Len(rawMetrics) <= RawKeep + 1
    /\ MostRecent(rawMetrics)

C33_RawBufferFull == Len(rawMetrics) = RawKeep + 1 /\ rawMetrics[1].id = StreamExtra

(***************************************************************************)
(* Aggregation as a function of its inputs                                 *)
(***************************************************************************)
\* the step is a call of calculateMetrics that follows a call on the same inputs
SecondCall == stats.fresh /\ stats'.fresh /\ stats'.again

FailedRequests(i) ==
    { r \in 1..Len(stats.sums[i].requests) : stats.sums[i].requests[r].status >= 400 }

\* C36: in every summary errorCount is the number of the layer's matched
\* requests with a status of at least 400
C36_ErrorCountCountsFailures ==
    stats.fresh =>
        \A i \in 1..Len(stats.sums) :
            stats.sums[i].errorCount = Cardinality(FailedRequests(i))

(***************************************************************************)
(* One run at a time                                                       *)
(***************************************************************************)
\* the Run Benchmark button is rendered: no run is shown as running and no
\* report is shown
ButtonRendered == ~ isRunningBenchmark /\ benchmarkReport = NoReport

\* the step starts a run: it takes runBenchmark to its setup navigation
RunBegins == pc # "setup" /\ pc' = "setup"

\* C37: at most one benchmark run is in progress at any time: while a run is
\* in progress the Run Benchmark button is not rendered, and a run only
\* begins when none is in progress
C37_AtMostOneRun ==
    /\ [](pc # "idle" => ~ ButtonRendered)
    /\ [][RunBegins => (pc = "idle" /\ ButtonRendered)]_vars

\* a second run is under way after a first one has produced its report
C37_Witness ==
    /\ lastReport.present
    /\ isRunningBenchmark
    /\ pc = "action"
    /\ stepIdx = 2

(***************************************************************************)
(* Snapshots and the view's signal                                         *)
(***************************************************************************)
\* C35: a snapshot is appended to the history only by a step in which the
\* view's busy signal itself goes from true to false while recording is
\* active; turning recording back on while the view is idle appends none
C35_SnapshotOnlyOnTransition ==
    [][Len(history') > Len(history) => (BusyToIdle /\ isRecording)]_vars

(***************************************************************************)
(* SpecLayers: MapComponent's layer synchronisation.  App hands its layer  *)
(* list to MapComponent, whose effect creates an engine layer for every    *)
(* configured layer the map does not hold yet and removes the others; the  *)
(* engine then requests data under the URL each layer was created with.    *)
(***************************************************************************)
MaxTypedLayers == 2     \* layers added on top of the default one
MaxLayerRequests == 1   \* requests the engine issues in one behaviour

LayerTypes == { "feature", "tile", "map-image", "vector-tile" }

Digits == { "0", "1", "2", "3", "4", "5", "6", "7", "8", "9" }

\* "S/A/0" and "S/b/12": URLs that name a sub-layer of a service
UrlSub0  == << "S", "/", "A", "/", "0" >>
UrlSub12 == << "S", "/", "b", "/", "1", "2" >>

TypedLayer(id, url, type, ex) ==
    [id |-> id, url |-> url, type |-> type, excludeFromMetrics |-> ex]

\* what the add-layer form can produce: any of the URLs with any of the types
\* (the type is pre-selected from the URL and can be changed in the select)
TypedPool ==
    { TypedLayer(p[1], p[2], t, FALSE) :
        p \in { << "la", UrlA >>, << "lb", UrlB >>, << "l0", UrlSub0 >>, << "l12", UrlSub12 >> },
        t \in LayerTypes }

\* the position of the "/" that the match of /\/\d+$/ starts at, or 0
subLayerAt(url) ==
    LET at == { k \in 1..(Len(url) - 1) :
                  /\ url[k] = "/"
                  /\ \A j \in (k + 1)..Len(url) : url[j] \in Digits }
    IN  IF at = {} THEN 0 ELSE SetMin(at)

\* const isSubLayer = /\/\d+$/.test(url)
isSubLayer(url) == subLayerAt(url) > 0

\* url.replace(/\/\d+$/, '')
stripSubLayer(url) ==
    IF isSubLayer(url) THEN SubSeq(url, 1, subLayerAt(url) - 1) ELSE url

\* the url property of the layer the effect constructs for layerConfig
serviceUrl(layerConfig) ==
    IF layerConfig.type = "feature"
    THEN layerConfig.url
    ELSE IF layerConfig.type \in { "map-image", "tile" } /\ isSubLayer(layerConfig.url)
         THEN stripSubLayer(layerConfig.url)
         ELSE layerConfig.url

findLayerById(map, id) == \E i \in 1..Len(map) : map[i].id = id

\* layers.forEach(layerConfig => { if (!map.findLayerById(...)) map.add(new ...) })
RECURSIVE addMissing(_, _, _)
addMissing(map, configs, i) ==
    IF i > Len(configs) THEN map
    ELSE addMissing(IF findLayerById(map, configs[i].id)
                    THEN map
                    ELSE Append(map, [id |-> configs[i].id, url |-> serviceUrl(configs[i])]),
                    configs, i + 1)

\* the effect on [layers]: create what is missing, then clean up removed layers
syncLayers(map, configs) ==
    SelectSeq(addMissing(map, configs, 1), LAMBDA m : findLayerById(configs, m.id))

DefaultTyped == << TypedLayer("vermont-basemap", UrlBase, "vector-tile", TRUE) >>

\* the path the engine appends to a layer's URL: none, or one such as "/e"
RequestTails == { << >>, << "/", "e" >> }

LayersInit ==
    /\ layers = DefaultTyped
    /\ mapLayers = syncLayers(<< >>, DefaultTyped)
    /\ batch = << >>
    /\ stats = NoStats
    /\ AppIdle /\ BenchIdle /\ WaitIdle
    /\ eventStart = 1
    /\ historyCapped = FALSE
    /\ MonIdle

\* handleAddLayer with the form's URL and type, and the effect it triggers
addTypedLayer ==
    /\ Len(layers) < Len(DefaultTyped) + MaxTypedLayers
    /\ \E l \in TypedPool :
          /\ \A i \in 1..Len(layers) : layers[i].id # l.id
          /\ layers' = Append(layers, l)
    /\ mapLayers' = syncLayers(mapLayers, layers')
    /\ UNCHANGED << batch, stats >>

\* handleRemoveLayer, and the effect it triggers
removeTypedLayer ==
    /\ \E i \in 1..Len(layers) :
          layers' = SelectSeq(layers, LAMBDA l : l.id # layers[i].id)
    /\ mapLayers' = syncLayers(mapLayers, layers')
    /\ UNCHANGED << batch, stats >>

\* the engine requests data of one of its layers, and the finished request is
\* aggregated over the tracked layers
engineRequest ==
    /\ Len(batch) < MaxLayerRequests
    /\ \E i \in 1..Len(mapLayers), tail \in RequestTails :
          batch' = Append(batch, Metric(Len(batch) + 1, mapLayers[i].url \o tail, 100, 200, 200))
    /\ stats' = [fresh |-> TRUE, sums |-> calculateMetrics(metricLayers(layers), batch'),
                 again |-> FALSE]
    /\ UNCHANGED << layers, mapLayers >>

layerRest == << rawMetrics, history, isRecording, isRecordingRef, viewUpdating,
               isMapUpdating, prevUpdatingRef, layerStatusesRef, isRunningBenchmark,
               subRunning, benchmarkReport, benchmarkMetricsRef, nextMetricId, pubLog,
               benchVars, waitVars, eventStart, historyCapped, monVars >>

LayersNext ==
    \/ (addTypedLayer /\ UNCHANGED layerRest)
    \/ (removeTypedLayer /\ UNCHANGED layerRest)
    \/ (engineRequest /\ UNCHANGED layerRest)

SpecLayers == LayersInit /\ [][LayersNext]_vars

\* the configured layer an engine layer was created for
ConfigOf(id) == layers[CHOOSE j \in 1..Len(layers) : layers[j].id = id]

\* C38: for every layer type, the URL the engine's layer was created with
\* contains the layer's configured URL, the key requests are attributed by,
\* also for tile and map-image layers configured with a sub-layer URL
C38_ServiceUrlContainsConfiguredUrl ==
    \A i \in 1..Len(mapLayers) :
        findLayerById(layers, mapLayers[i].id) =>
            includes(toLowerCase(mapLayers[i].url), toLowerCase(ConfigOf(mapLayers[i].id).url))

====
